---- MODULE Spec2Model ----
(***************************************************************************)
(* QRC Editor: the resource collection data model (qrcdata.py), the tab    *)
(* dialog (qrcdlg.py) and the editors' file actions (qrceditor.py).        *)
(*                                                                         *)
(* Strings of the program (language, prefix, alias, file) are sequences of *)
(* one-character strings; Python's None is a value distinct from every     *)
(* string.  A file name is such a sequence too, its directory and stem     *)
(* counted as one character and its extension as another.  Positions are   *)
(* Python's, counted from 0.  The clipboard holds the text of the          *)
(* application's clipboard, the empty sequence when it holds none.         *)
(***************************************************************************)
EXTENDS Integers, Sequences, FiniteSets, TLC

VARIABLES instances, next_id, disk, coll, cur, clipboard, last

vars == <<instances, next_id, disk, coll, cur, clipboard, last>>

---------------------------------------------------------------------------
(* Values *)

\* Python's None for an optional string (a language, a prefix, an alias, a file name).
None == <<"None">>

\* bool(s) of an optional string: None and the empty string are false.
Truthy(s) == s # None /\ s # <<>>

\* Element i (from 0) of a Python list.
At(s, i) == s[i + 1]

\* The positions 0 .. len(s) - 1 of a Python list.
Positions(s) == 0 .. (Len(s) - 1)

\* list.insert(i, x) for 0 <= i; an index past the end appends.
ListInsert(s, i, x) == IF i >= Len(s) THEN Append(s, x) ELSE SubSeq(s, 1, i) \o <<x>> \o SubSeq(s, i + 1, Len(s))

\* del s[i], and what list.pop(i) leaves, for 0 <= i < len(s).
ListDel(s, i) == SubSeq(s, 1, i) \o SubSeq(s, i + 2, Len(s))

\* s[i] = x for 0 <= i < len(s).
ListSetItem(s, i, x) == [s EXCEPT ![i + 1] = x]

\* Resource(file, alias)
Resource(file, alias) == [file |-> file, alias |-> alias]

\* Resources(language, prefix) holding the given entries.
Resources(language, prefix, entries) == [language |-> language, prefix |-> prefix, entries |-> entries]

\* ResourceCollection(): empty, no file name, not dirty.
ResourceCollection == [groups |-> <<>>, file_name |-> None, dirty |-> FALSE]

---------------------------------------------------------------------------
(* Resources.is_duplicate *)

\* The aliases of the group's entries that are not None, in order.
RECURSIVE Aliases(_)
Aliases(entries) == IF entries = <<>> THEN <<>> ELSE (IF Head(entries).alias # None THEN <<Head(entries).alias>> ELSE <<>>) \o Aliases(Tail(entries))

\* list.count(x)
Count(s, x) == Cardinality({i \in 1..Len(s) : s[i] = x})

\* Resources.is_duplicate(alias)
IsDuplicate(resources, alias) == Count(Aliases(resources.entries), alias) > 1

---------------------------------------------------------------------------
(* ResourceCollection: key lookup, flags *)

\* A comparison that looks at the language alone.
SameLanguage(a, b) == a.language = b.language

\* The comparison of __contains__ and index: language and prefix only.
SameKey(a, b) == a.language = b.language /\ a.prefix = b.prefix

\* ResourceCollection.__contains__(item)
Contains(c, item) == \E i \in 1..Len(c.groups) : SameKey(c.groups[i], item)

\* ResourceCollection.index(item): the first position with the item's key; -1 stands for ValueError.
Index(c, item) == IF Contains(c, item) THEN (CHOOSE i \in Positions(c.groups) : SameKey(At(c.groups, i), item) /\ \A j \in Positions(c.groups) : SameKey(At(c.groups, j), item) => i <= j) ELSE -1

\* ResourceCollection.set_dirty(dirty)
SetDirty(c, dirty) == [c EXCEPT !.dirty = dirty]

\* set_file_name that leaves the dirty flag alone.
SetFileNameSilent(c, file_name) == [c EXCEPT !.file_name = file_name]

\* ResourceCollection.set_file_name(file_name)
SetFileName(c, file_name) == [c EXCEPT !.file_name = file_name, !.dirty = TRUE]

\* clear(False) that forgets to empty the list.
ClearKeepsGroups(c, clear_file_name) == IF clear_file_name THEN [groups |-> <<>>, file_name |-> None, dirty |-> FALSE] ELSE [c EXCEPT !.dirty = TRUE]

\* ResourceCollection.clear(clear_file_name)
Clear(c, clear_file_name) == IF clear_file_name THEN [groups |-> <<>>, file_name |-> None, dirty |-> FALSE] ELSE [c EXCEPT !.groups = <<>>, !.dirty = TRUE]

\* ResourceCollection.remove(resources): the collection afterwards and the value returned.
Remove(c, resources) == IF ~Contains(c, resources) THEN [coll |-> c, ret |-> FALSE] ELSE [coll |-> [c EXCEPT !.dirty = TRUE], ret |-> TRUE]

---------------------------------------------------------------------------
(* The manifest file: what save writes and what load reads *)

\* A path with no readable file.
NoFile == [kind |-> "missing", lines |-> <<>>]

\* A file whose text is not XML at all.
Garbage == [kind |-> "text", lines |-> <<>>]

\* str.format of a value: a string as it is, None as the text None.
Fmt(v) == IF v = None THEN <<"N", "o", "n", "e">> ELSE v

\* The <file> line save writes for one entry: the alias attribute only for a true alias.
FileLine(resource) == [alias |-> IF Truthy(resource.alias) THEN Fmt(resource.alias) ELSE None, text |-> Fmt(resource.file)]

\* The <qresource> element save writes for one group: lang and prefix only when not None.
QresourceLines(resources) == [lang |-> IF resources.language # None THEN Fmt(resources.language) ELSE None, prefix |-> IF resources.prefix # None THEN Fmt(resources.prefix) ELSE None, files |-> [i \in 1..Len(resources.entries) |-> FileLine(resources.entries[i])]]

\* The text save writes for the groups, values inserted as they are.
Written(groups) == [kind |-> "rcc", lines |-> [i \in 1..Len(groups) |-> QresourceLines(groups[i])]]

\* s holds the character ch.
HasChar(s, ch) == \E i \in 1..Len(s) : s[i] = ch

\* An attribute value as written between double quotes parses: no &, < or quote in it.
AttrOk(v) == v = None \/ (~HasChar(v, "&") /\ ~HasChar(v, "<") /\ ~HasChar(v, "\""))

\* Element text as written parses: no & or < in it.
TextOk(v) == ~HasChar(v, "&") /\ ~HasChar(v, "<")

\* ElementTree.parse accepts the file: well-formed XML.
WellFormed(f) == f.kind = "rcc" /\ \A i \in 1..Len(f.lines) : AttrOk(f.lines[i].lang) /\ AttrOk(f.lines[i].prefix) /\ \A j \in 1..Len(f.lines[i].files) : AttrOk(f.lines[i].files[j].alias) /\ TextOk(f.lines[i].files[j].text)

\* The Resource load builds from a <file> element: an absent alias is None, empty text is None.
ParseFile(fl) == Resource(IF fl.text = <<>> THEN None ELSE fl.text, fl.alias)

\* The Resources load builds from a <qresource> element: absent attributes are None.
ParseQresource(q) == Resources(q.lang, q.prefix, [j \in 1..Len(q.files) |-> ParseFile(q.files[j])])

\* The groups load appends for a well-formed file, in document order.
ParseGroups(f) == [i \in 1..Len(f.lines) |-> ParseQresource(f.lines[i])]

---------------------------------------------------------------------------
(* ResourceCollection.load and ResourceCollection.save *)

\* s.startswith(prefix)
StartsWith(s, prefix) == Len(s) >= Len(prefix) /\ SubSeq(s, 1, Len(prefix)) = prefix

\* The absolute paths of manifests the editors work on.
Paths == {<<"/a", ".qrc">>, <<"/b", ".qrc">>}

\* A path open(path, "wt") fails on with OSError: a missing directory or a file without write permission.
Unwritable == {<<"/ro", ".qrc">>}

\* "Unnamed-N", the name QrcEditor() gives the Nth unsaved document.
Unnamed(n) == <<"Unnamed", "-" \o ToString(n)>>

\* Every path of the file system the model keeps.
AllPaths == Paths \cup Unwritable \cup {Unnamed(1), <<"/e/a", ".qrc">>}

\* load, first statement: a true file_name argument becomes the collection's file name.
LoadBind(c, file_name) == IF file_name # <<>> THEN [c EXCEPT !.file_name = file_name] ELSE c

\* load(file_name) on the file system d: the collection afterwards and how the call ends:
\* "true" and "false" are the first element of the pair returned, "raise" an exception that leaves load.
Load(c, file_name, d) == LET c1 == Clear(LoadBind(c, file_name), FALSE) IN IF c1.file_name = None THEN [coll |-> c1, outcome |-> "raise"] ELSE IF d[c1.file_name].kind = "missing" THEN [coll |-> c1, outcome |-> "false"] ELSE IF ~WellFormed(d[c1.file_name]) THEN [coll |-> c1, outcome |-> "raise"] ELSE [coll |-> [c1 EXCEPT !.groups = c1.groups \o ParseGroups(d[c1.file_name]), !.dirty = FALSE], outcome |-> "true"]

\* save that ignores its file_name argument.
SaveBindIgnored(c, file_name) == c

\* save, first statement: a true file_name argument becomes the collection's file name.
SaveBind(c, file_name) == IF file_name # <<>> THEN [c EXCEPT !.file_name = file_name] ELSE c

\* save(file_name) on the file system d: the collection and the file system afterwards, and how the call ends.
Save(c, file_name, d) == LET c1 == SaveBind(c, file_name) IN IF c1.file_name = None \/ c1.file_name \in Unwritable THEN [coll |-> c1, disk |-> d, outcome |-> "raise"] ELSE [coll |-> [c1 EXCEPT !.dirty = FALSE], disk |-> [d EXCEPT ![c1.file_name] = Written(c1.groups)], outcome |-> "true"]

---------------------------------------------------------------------------
(* SpecColl: one ResourceCollection driven through its own operations *)

\* The largest number of groups a collection of SpecColl holds.
MaxGroups == 2

\* The paths given to load, save and set_file_name in SpecColl.
CollPaths == {<<"/a", ".qrc">>, <<"/ro", ".qrc">>}

\* The groups the callers of SpecColl build.
CollGroups == {Resources(l, None, es) : l \in {None, <<"e", "n">>}, es \in {<<>>, <<Resource(<<"b">>, <<"a">>)>>}}

\* A manifest with two groups, found on disk when the program starts.
SampleFile == Written(<<Resources(<<"e", "n">>, None, <<Resource(<<"b">>, None)>>), Resources(None, None, <<>>)>>)

\* The editors and the tab dialog take no part in SpecColl.
CollFrame == instances = <<>> /\ next_id = 1 /\ cur = -1 /\ clipboard = <<>>

InitColl == /\ CollFrame
            /\ coll = ResourceCollection
            /\ \E f \in {NoFile, Garbage, SampleFile} : disk = [p \in AllPaths |-> IF p = <<"/a", ".qrc">> THEN f ELSE NoFile]
            /\ last = [op |-> "init", outcome |-> "", arg |-> <<>>, flag |-> FALSE]

CollLoad == \E p \in CollPaths \cup {<<>>} : LET r == Load(coll, p, disk) IN
            /\ coll' = r.coll
            /\ last' = [op |-> "load", outcome |-> r.outcome, arg |-> p, flag |-> FALSE]
            /\ UNCHANGED <<clipboard, instances, next_id, disk, cur>>

CollSave == \E p \in CollPaths \cup {<<>>} : LET r == Save(coll, p, disk) IN
            /\ coll' = r.coll
            /\ disk' = r.disk
            /\ last' = [op |-> "save", outcome |-> r.outcome, arg |-> p, flag |-> FALSE]
            /\ UNCHANGED <<clipboard, instances, next_id, cur>>

CollClear == \E b \in BOOLEAN :
             /\ coll' = Clear(coll, b)
             /\ last' = [op |-> "clear", outcome |-> "", arg |-> <<>>, flag |-> b]
             /\ UNCHANGED <<clipboard, instances, next_id, disk, cur>>

CollSetFileName == \E p \in CollPaths :
                   /\ coll' = SetFileName(coll, p)
                   /\ last' = [op |-> "set_file_name", outcome |-> "", arg |-> p, flag |-> FALSE]
                   /\ UNCHANGED <<clipboard, instances, next_id, disk, cur>>

CollRemove == \E g \in CollGroups : LET r == Remove(coll, g) IN
              /\ coll' = r.coll
              /\ last' = [op |-> "remove", outcome |-> IF r.ret THEN "true" ELSE "false", arg |-> <<>>, flag |-> FALSE]
              /\ UNCHANGED <<clipboard, instances, next_id, disk, cur>>

\* list.append(g), inherited.
CollAppend == \E g \in CollGroups :
              /\ Len(coll.groups) < MaxGroups
              /\ coll' = [coll EXCEPT !.groups = Append(@, g)]
              /\ last' = [op |-> "append", outcome |-> "", arg |-> <<>>, flag |-> FALSE]
              /\ UNCHANGED <<clipboard, instances, next_id, disk, cur>>

\* list.insert(i, g), inherited.
CollInsert == \E g \in CollGroups, i \in 0..MaxGroups :
              /\ Len(coll.groups) < MaxGroups
              /\ coll' = [coll EXCEPT !.groups = ListInsert(@, i, g)]
              /\ last' = [op |-> "insert", outcome |-> "", arg |-> <<>>, flag |-> FALSE]
              /\ UNCHANGED <<clipboard, instances, next_id, disk, cur>>

\* list.pop(i), inherited.
CollPop == \E i \in Positions(coll.groups) :
           /\ coll' = [coll EXCEPT !.groups = ListDel(@, i)]
           /\ last' = [op |-> "pop", outcome |-> "", arg |-> <<>>, flag |-> FALSE]
           /\ UNCHANGED <<clipboard, instances, next_id, disk, cur>>

\* del collection[i], inherited.
CollDelItem == \E i \in Positions(coll.groups) :
               /\ coll' = [coll EXCEPT !.groups = ListDel(@, i)]
               /\ last' = [op |-> "del", outcome |-> "", arg |-> <<>>, flag |-> FALSE]
               /\ UNCHANGED <<clipboard, instances, next_id, disk, cur>>

\* collection[i] = g, inherited.
CollSetItem == \E g \in CollGroups, i \in Positions(coll.groups) :
               /\ g # At(coll.groups, i)
               /\ coll' = [coll EXCEPT !.groups = ListSetItem(@, i, g)]
               /\ last' = [op |-> "setitem", outcome |-> "", arg |-> <<>>, flag |-> FALSE]
               /\ UNCHANGED <<clipboard, instances, next_id, disk, cur>>

NextColl == \/ CollLoad
            \/ CollSave
            \/ CollClear
            \/ CollSetFileName
            \/ CollRemove
            \/ CollAppend
            \/ CollInsert
            \/ CollPop
            \/ CollDelItem
            \/ CollSetItem

SpecColl == InitColl /\ [][NextColl]_vars

---------------------------------------------------------------------------
(* Claims about load and save, checked under SpecColl *)

\* The file at the path given to the last load or save.
LastFile == disk[last.arg]

\* C3: load(path) on a file that cannot be read, and on a file that is not
\* well-formed XML, returns (False, message), raises nothing, and leaves the
\* collection with no groups.
C3_LoadFailureIsReturned == (last.op = "load" /\ last.arg # <<>> /\ (LastFile.kind = "missing" \/ ~WellFormed(LastFile))) => (last.outcome = "false" /\ coll.groups = <<>>)

\* C3, the case in the code: a load of a file that is not well-formed XML has acted.
C3_Witness == last.op = "load" /\ last.arg # <<>> /\ LastFile.kind # "missing" /\ ~WellFormed(LastFile)

\* The path a save step writes to: its argument when one is given, the file name before the step otherwise.
SaveTarget == IF last'.arg # <<>> THEN last'.arg ELSE coll.file_name

\* C4: a save whose target cannot be written returns (False, message) instead
\* of raising, and leaves groups, entries, backing path and dirty flag as they were.
C4_SaveFailureKeepsState == [][(last'.op = "save" /\ SaveTarget \in Unwritable) => (last'.outcome = "false" /\ coll' = coll)]_vars

\* C4, the case in the code: a save to an unwritable path has acted.
C4_Witness == last.op = "save" /\ last.arg \in Unwritable /\ last.outcome # "true"

\* The steps that change the group sequence through the inherited list operations.
ListOps == {"append", "insert", "pop", "del", "setitem"}

\* The step is one of the collection's own operations that set the flag:
\* remove of a group whose key is present, clear with the path kept, set_file_name.
FlaggingStep == \/ last'.op = "remove" /\ last'.outcome = "true"
                \/ last'.op = "clear" /\ ~last'.flag
                \/ last'.op = "set_file_name"

\* C5 as stated: from a clean collection every single mutation through the
\* collection's operations (append, insert, pop, delete, reassign, remove,
\* clear with the path kept, set_file_name) leaves dirty() true.
C5_EveryMutationSetsDirty == [][(~coll.dirty /\ (last'.op \in ListOps \/ FlaggingStep)) => coll'.dirty]_vars

\* C5 as amended: from a clean collection, remove of a present group, clear
\* with the path kept and set_file_name leave dirty() true, while appending,
\* inserting, popping, deleting or reassigning a group through the inherited
\* list operations leaves dirty() false: the caller has to call set_dirty.
C5_OwnOperationsSetDirty == [][~coll.dirty => ((FlaggingStep => coll'.dirty) /\ (last'.op \in ListOps => ~coll'.dirty))]_vars

\* C5, the case: a group was appended to a clean collection bound to a file, and the flag is still false.
C5_Witness == last.op = "append" /\ ~coll.dirty /\ coll.file_name = <<"/a", ".qrc">> /\ Len(coll.groups) = 2

\* C6: after a successful load(path) the groups are exactly those of the file
\* in document order, nothing of the previous content remains, the backing
\* path is path and dirty() is false.
C6_LoadReplacesContent == (last.op = "load" /\ last.outcome = "true" /\ last.arg # <<>>) => (/\ coll.file_name = last.arg
   /\ ~coll.dirty
   /\ Len(coll.groups) = Len(LastFile.lines)
   /\ \A i \in 1..Len(LastFile.lines) :
        /\ coll.groups[i].language = LastFile.lines[i].lang
        /\ coll.groups[i].prefix = LastFile.lines[i].prefix
        /\ Len(coll.groups[i].entries) = Len(LastFile.lines[i].files)
        /\ \A j \in 1..Len(LastFile.lines[i].files) :
             /\ coll.groups[i].entries[j].alias = LastFile.lines[i].files[j].alias
             /\ LastFile.lines[i].files[j].text # <<>> => coll.groups[i].entries[j].file = LastFile.lines[i].files[j].text)

\* C6, the case: a load of a manifest with two groups succeeded.
C6_Witness == last.op = "load" /\ last.outcome = "true" /\ last.arg = <<"/a", ".qrc">> /\ Len(coll.groups) = 2 /\ coll.groups[1].entries # <<>>

\* C7: a successful save leaves the groups and their entries unchanged, sets
\* dirty() to false, and leaves the backing path equal to the path given, or
\* to the previous backing path when none is given.
C7_SaveFrame == [][(last'.op = "save" /\ last'.outcome = "true") => (coll'.groups = coll.groups /\ ~coll'.dirty /\ coll'.file_name = SaveTarget)]_vars

\* C7, the case: a save with a path given succeeded on a collection of two groups.
C7_Witness == last.op = "save" /\ last.outcome = "true" /\ last.arg = <<"/a", ".qrc">> /\ Len(coll.groups) = 2

---------------------------------------------------------------------------
(* SpecDup: one group filled entry by entry and asked for duplicate aliases *)

\* The largest number of entries the group of SpecDup holds.
MaxDupEntries == 3

\* The aliases the entries carry and is_duplicate is asked about: None (a
\* <file> without alias attribute), the empty string (Resource(file) as paste
\* builds it, or an empty alias field of the resource dialog) and two names.
DupAliases == {None, <<>>, <<"a">>, <<"b">>}

\* No file is touched in SpecDup.
DupFrame == instances = <<>> /\ next_id = 1 /\ cur = -1 /\ disk = [p \in AllPaths |-> NoFile] /\ clipboard = <<>>

InitDup == /\ DupFrame
           /\ coll = [ResourceCollection EXCEPT !.groups = <<Resources(None, None, <<>>)>>]
           /\ last = [op |-> "init", outcome |-> "", arg |-> <<>>, flag |-> FALSE]

\* resources.append(Resource(file, alias)), as edit_paste and ResourceDlg.accept do.
DupAppend == \E a \in DupAliases :
             /\ Len(coll.groups[1].entries) < MaxDupEntries
             /\ coll' = [coll EXCEPT !.groups[1].entries = Append(@, Resource(<<"f">>, a))]
             /\ last' = [op |-> "append", outcome |-> "", arg |-> a, flag |-> FALSE]
             /\ UNCHANGED <<clipboard, instances, next_id, disk, cur>>

\* resources.is_duplicate(alias): the collection is only read.
DupIsDuplicate == \E a \in DupAliases :
                  /\ last' = [op |-> "is_duplicate", outcome |-> "", arg |-> a, flag |-> IsDuplicate(coll.groups[1], a)]
                  /\ UNCHANGED <<clipboard, instances, next_id, disk, coll, cur>>

NextDup == \/ DupAppend
           \/ DupIsDuplicate

SpecDup == InitDup /\ [][NextDup]_vars

\* The number of entries of the group of SpecDup that carry exactly the alias a.
DupCarriers(a) == Cardinality({i \in 1..Len(coll.groups[1].entries) : coll.groups[1].entries[i].alias = a})

\* C8: is_duplicate(alias) is true iff alias is a non-empty string and at
\* least two entries of the group carry exactly that alias; for the empty
\* string and for an absent alias it is false whatever the entries carry.
C8_DuplicateIffNonEmptyTwice == last.op = "is_duplicate" => (last.flag <=> (last.arg # None /\ last.arg # <<>> /\ DupCarriers(last.arg) >= 2))

\* C8, the case in the code: is_duplicate("") was asked of a group with two entries of empty alias.
C8_Witness == last.op = "is_duplicate" /\ last.arg = <<>> /\ DupCarriers(<<>>) >= 2

---------------------------------------------------------------------------
(* SpecKey: membership and index of a probe group in a collection *)

\* The largest number of groups the collection of SpecKey holds.
MaxKeyGroups == 3

\* The groups of SpecKey: two languages, two prefixes, with and without an entry.
KeyGroups == {Resources(l, p, es) : l \in {None, <<"e", "n">>}, p \in {None, <<"x">>}, es \in {<<>>, <<Resource(<<"f">>, None)>>}}

InitKey == /\ DupFrame
           /\ coll = ResourceCollection
           /\ last = [op |-> "init", outcome |-> "", arg |-> Resources(None, None, <<>>), flag |-> FALSE, pos |-> 0]

\* collection.append(g): a collection may hold several groups of one key (a
\* manifest with two <qresource> elements of equal attributes loads so).
KeyAppend == \E g \in KeyGroups :
             /\ Len(coll.groups) < MaxKeyGroups
             /\ coll' = [coll EXCEPT !.groups = Append(@, g)]
             /\ last' = [op |-> "append", outcome |-> "", arg |-> g, flag |-> FALSE, pos |-> 0]
             /\ UNCHANGED <<clipboard, instances, next_id, disk, cur>>

\* probe in collection
KeyContains == \E g \in KeyGroups :
               /\ last' = [op |-> "contains", outcome |-> "", arg |-> g, flag |-> Contains(coll, g), pos |-> 0]
               /\ UNCHANGED <<clipboard, instances, next_id, disk, coll, cur>>

\* collection.index(probe): a position returned, or ValueError raised.
KeyIndex == \E g \in KeyGroups : LET i == Index(coll, g) IN
            /\ last' = [op |-> "index", outcome |-> IF i < 0 THEN "ValueError" ELSE "", arg |-> g, flag |-> FALSE, pos |-> i]
            /\ UNCHANGED <<clipboard, instances, next_id, disk, coll, cur>>

NextKey == \/ KeyAppend
           \/ KeyContains
           \/ KeyIndex

SpecKey == InitKey /\ [][NextKey]_vars

\* The positions (from 0) of the groups with the language and the prefix of the last probe.
KeyMatches == {i \in Positions(coll.groups) : At(coll.groups, i).language = last.arg.language /\ At(coll.groups, i).prefix = last.arg.prefix}

\* C9: probe in collection is true iff some member has the probe's language
\* and prefix, whatever the entries of either; collection.index(probe) returns
\* the smallest position of such a member and raises ValueError when there is none.
C9_MembershipByKey == /\ last.op = "contains" => (last.flag <=> KeyMatches # {})
                      /\ last.op = "index" => IF KeyMatches = {} THEN last.outcome = "ValueError" ELSE (last.outcome = "" /\ last.pos \in KeyMatches /\ \A j \in KeyMatches : last.pos <= j)

\* C9, the case: index found the probe's key at position 1, behind a group of
\* another key and before a second group of the probe's key, the entries of
\* the group found differing from the probe's.
C9_Witness == last.op = "index" /\ last.pos = 1 /\ KeyMatches = {1, 2} /\ At(coll.groups, 1).entries # last.arg.entries

---------------------------------------------------------------------------
(* SpecRoundTrip: a collection is built, saved to a path and loaded back *)

\* The largest number of groups a collection of SpecRoundTrip holds.
MaxRtGroups == 2

\* The path the collection is saved to and loaded from.
RtPath == <<"/a", ".qrc">>

\* The entry lists of the groups of SpecRoundTrip: aliases absent, empty,
\* plain and holding a character XML reserves; a file name holding one.
RtEntries == {<<>>, <<Resource(<<"f">>, <<"a">>), Resource(<<"g">>, None)>>, <<Resource(<<"&">>, None)>>} \cup {<<Resource(<<"f">>, a)>> : a \in {None, <<>>, <<"a">>, <<"<">>}}

\* The groups of SpecRoundTrip: the language absent, empty, or holding a character XML reserves.
RtGroups == {Resources(l, None, es) : l \in {None, <<>>, <<"&">>}, es \in RtEntries}

InitRoundTrip == /\ DupFrame
                 /\ coll = ResourceCollection
                 /\ last = [op |-> "init", outcome |-> "", arg |-> <<>>, flag |-> FALSE]

\* collection.append(g) while the collection is being built.
RtAppend == \E g \in RtGroups :
            /\ last.op \in {"init", "append"}
            /\ Len(coll.groups) < MaxRtGroups
            /\ coll' = [coll EXCEPT !.groups = Append(@, g)]
            /\ last' = [op |-> "append", outcome |-> "", arg |-> <<>>, flag |-> FALSE]
            /\ UNCHANGED <<clipboard, instances, next_id, disk, cur>>

\* collection.save(path) of the collection built.
RtSave == LET r == Save(coll, RtPath, disk) IN
          /\ last.op \in {"init", "append"}
          /\ coll' = r.coll
          /\ disk' = r.disk
          /\ last' = [op |-> "save", outcome |-> r.outcome, arg |-> RtPath, flag |-> FALSE]
          /\ UNCHANGED <<clipboard, instances, next_id, cur>>

\* collection.load(path) right after the save.
RtLoad == LET r == Load(coll, RtPath, disk) IN
          /\ last.op = "save"
          /\ coll' = r.coll
          /\ last' = [op |-> "load", outcome |-> r.outcome, arg |-> RtPath, flag |-> FALSE]
          /\ UNCHANGED <<clipboard, instances, next_id, disk, cur>>

NextRoundTrip == \/ RtAppend
                 \/ RtSave
                 \/ RtLoad

SpecRoundTrip == InitRoundTrip /\ [][NextRoundTrip]_vars

\* C2: save(path) followed by load(path) yields the same groups in the same
\* order, the same entries in the same order within each group, the same
\* language, prefix, alias and path values, an absent value and an empty
\* string kept distinct, also for values with characters XML reserves.
C2_SaveLoadRoundTrip == [][(last.op = "save" /\ last.outcome = "true" /\ last'.op = "load") => (last'.outcome = "true" /\ coll'.groups = coll.groups /\ coll'.file_name = coll.file_name)]_vars

\* C2, the case in the code: the load right after a successful save of two
\* groups raised on the file the save wrote.
C2_Witness == last.op = "load" /\ last.outcome = "raise" /\ disk[RtPath].kind = "rcc" /\ Len(disk[RtPath].lines) = 2

---------------------------------------------------------------------------
(* The tab dialog (TabDlg) and the tab widget of an editor *)

\* TabDlg.__init__: the index the dialog starts with.  pos is the position of
\* the group being edited (-1 in add mode, where resources is None), current
\* the tab widget's current index.
TabDlgIndex(c, pos, current) == IF pos >= 0 THEN Index(c, At(c.groups, pos)) ELSE current + 1

\* The groups after collection[index].extend(collection[self_index]) and del collection[self_index].
TabMerge(groups, index, self_index) == ListDel([groups EXCEPT ![index + 1].entries = @ \o At(groups, self_index).entries], self_index)

\* TabDlg.accept when no group has the entered key: the flag is set; in edit
\* mode the edited group takes the language and the prefix, in add mode the
\* new group is inserted at the dialog's index, which stays as it is.
TabDlgAbsent(c, pos, self_index, resources, reply) == [coll |-> [c EXCEPT !.dirty = TRUE, !.groups = IF pos >= 0 THEN [@ EXCEPT ![pos + 1].language = resources.language, ![pos + 1].prefix = resources.prefix] ELSE ListInsert(@, self_index, resources)], index |-> self_index]

\* An accept that inserts the new group although a group has the entered key.
TabDlgPresentInserts(c, pos, self_index, resources, reply) == [coll |-> [c EXCEPT !.dirty = TRUE, !.groups = ListInsert(@, self_index, resources)], index |-> self_index]

\* TabDlg.accept when a group has the entered key: in edit mode, and with the
\* merge confirmed, the flag is set and the groups are merged; in add mode
\* the collection is left alone; the dialog's index is recomputed.
TabDlgPresent(c, pos, self_index, resources, reply) == LET index == Index(c, resources) IN [coll |-> IF pos >= 0 /\ reply THEN [c EXCEPT !.dirty = TRUE, !.groups = TabMerge(@, index, self_index)] ELSE c, index |-> IF index < self_index THEN index ELSE index - 1]

\* TabDlg.accept: the collection afterwards and the dialog's index, for the
\* language chosen, the text of the prefix field and the answer to the merge prompt.
TabDlgAccept(c, pos, self_index, language, text, reply) == LET resources == Resources(language, IF text # <<>> THEN text ELSE None, <<>>) IN IF Contains(c, resources) THEN TabDlgPresent(c, pos, self_index, resources, reply) ELSE TabDlgAbsent(c, pos, self_index, resources, reply)

\* update_widget(current): the tab widget's current index once the tabs are
\* rebuilt: the first tab, unless current is true and a valid index.
UpdateWidget(c, current) == IF c.groups = <<>> THEN -1 ELSE IF current # 0 /\ current \in Positions(c.groups) THEN current ELSE 0

---------------------------------------------------------------------------
(* SpecTab: one editor's collection worked on through the tab dialog *)

\* The largest number of groups a collection of SpecTab holds.
MaxTabs == 2

\* The largest number of groups of the manifest the editor of SpecTab opened.
MaxTabInit == 1

\* The languages of the dialog's combo box the model chooses from: Default (None) and one code.
TabLanguages == {None, <<"e", "n">>}

\* The texts typed into the dialog's prefix field.
TabPrefixTexts == {<<>>, <<"x">>}

\* The prefix the dialog makes of the text of its field.
TabPrefix(text) == IF text # <<>> THEN text ELSE None

\* The manifests the editor opened: each group with one entry that names its position in the file.
TabInitGroups == UNION {{[i \in 1..n |-> Resources(ks[i][1], TabPrefix(ks[i][2]), <<Resource(<<ToString(i)>>, None)>>)] : ks \in [1..n -> TabLanguages \X TabPrefixTexts]} : n \in 0..MaxTabInit}

InitTab == /\ instances = <<>>
           /\ clipboard = <<>>
           /\ next_id = 1
           /\ \E gs \in TabInitGroups :
                /\ coll = [groups |-> gs, file_name |-> <<"/a", ".qrc">>, dirty |-> FALSE]
                /\ disk = [p \in AllPaths |-> IF p = <<"/a", ".qrc">> THEN Written(gs) ELSE NoFile]
                /\ cur = UpdateWidget(coll, 0)
           /\ last = [op |-> "init", outcome |-> "", arg |-> Resources(None, None, <<>>), flag |-> FALSE, pos |-> 0]

\* edit_add_tab: the dialog accepted, or cancelled.
TabAdd == \E language \in TabLanguages, text \in TabPrefixTexts, ok \in BOOLEAN :
          LET resources == Resources(language, TabPrefix(text), <<>>)
              r == TabDlgAccept(coll, -1, TabDlgIndex(coll, -1, cur), language, text, FALSE)
          IN /\ Len(coll.groups) < MaxTabs \/ Contains(coll, resources)
             /\ coll' = IF ok THEN r.coll ELSE coll
             /\ cur' = IF ok THEN UpdateWidget(r.coll, r.index) ELSE cur
             /\ last' = IF ok THEN [op |-> "add_tab", outcome |-> "accepted", arg |-> resources, flag |-> FALSE, pos |-> r.index] ELSE [op |-> "add_tab", outcome |-> "rejected", arg |-> Resources(None, None, <<>>), flag |-> FALSE, pos |-> cur]
             /\ UNCHANGED <<clipboard, instances, next_id, disk>>

\* edit_edit_tab on the current tab: the dialog accepted with an answer to the
\* merge prompt, or cancelled.
TabEdit == \E language \in TabLanguages, text \in TabPrefixTexts, ok \in BOOLEAN, reply \in BOOLEAN :
           LET resources == Resources(language, TabPrefix(text), <<>>)
               r == TabDlgAccept(coll, cur, TabDlgIndex(coll, cur, cur), language, text, reply)
           IN /\ cur >= 0
              /\ ok \/ ~reply
              /\ coll' = IF ok THEN r.coll ELSE coll
              /\ cur' = IF ok THEN UpdateWidget(r.coll, r.index) ELSE cur
              /\ last' = IF ok THEN [op |-> "edit_tab", outcome |-> "accepted", arg |-> resources, flag |-> reply, pos |-> r.index] ELSE [op |-> "edit_tab", outcome |-> "rejected", arg |-> Resources(None, None, <<>>), flag |-> FALSE, pos |-> cur]
              /\ UNCHANGED <<clipboard, instances, next_id, disk>>

\* The user brings another tab to the front.
TabSelect == \E i \in Positions(coll.groups) :
             /\ i # cur
             /\ cur' = i
             /\ last' = [op |-> "select", outcome |-> "", arg |-> Resources(None, None, <<>>), flag |-> FALSE, pos |-> i]
             /\ UNCHANGED <<clipboard, instances, next_id, disk, coll>>

NextTab == \/ TabAdd
           \/ TabEdit
           \/ TabSelect

SpecTab == InitTab /\ [][NextTab]_vars

\* The positions (from 1) of the groups of gs with the language and the prefix of g.
TabKeyPositions(gs, g) == {i \in 1..Len(gs) : gs[i].language = g.language /\ gs[i].prefix = g.prefix}

\* The position (from 1) of the first group of gs with the key of g.
TabFirst(gs, g) == CHOOSE i \in TabKeyPositions(gs, g) : \A j \in TabKeyPositions(gs, g) : i <= j

---------------------------------------------------------------------------
(* SpecTabFile: the tab dialog on a manifest whose groups may share a key *)

\* The largest number of <qresource> elements of the manifest opened in SpecTabFile.
MaxTabFile == 3

\* The manifests opened: two groups or more, any keys, equal ones included
\* (load appends every <qresource> it reads), each group with one entry that
\* names its position in the file.
TabFileGroups == UNION {{[i \in 1..n |-> Resources(ks[i][1], TabPrefix(ks[i][2]), <<Resource(<<ToString(i)>>, None)>>)] : ks \in [1..n -> TabLanguages \X TabPrefixTexts]} : n \in 2..MaxTabFile}

InitTabFile == /\ instances = <<>>
               /\ clipboard = <<>>
               /\ next_id = 1
               /\ \E gs \in TabFileGroups :
                    /\ coll = [groups |-> gs, file_name |-> <<"/a", ".qrc">>, dirty |-> FALSE]
                    /\ disk = [p \in AllPaths |-> IF p = <<"/a", ".qrc">> THEN Written(gs) ELSE NoFile]
                    /\ cur = UpdateWidget(coll, 0)
               /\ last = [op |-> "init", outcome |-> "", arg |-> Resources(None, None, <<>>), flag |-> FALSE, pos |-> 0]

SpecTabFile == InitTabFile /\ [][NextTab]_vars

\* The step is an accepted edit of the current tab with the merge confirmed,
\* the key entered differing from the edited group's and being the key of
\* exactly one group.
MergeStep == /\ last'.op = "edit_tab" /\ last'.outcome = "accepted" /\ last'.flag
             /\ cur >= 0
             /\ last'.arg.language # At(coll.groups, cur).language \/ last'.arg.prefix # At(coll.groups, cur).prefix
             /\ Cardinality(TabKeyPositions(coll.groups, last'.arg)) = 1

\* The groups the merge of the group at s into the group at t (from 1) is to leave.
MergeExpected(gs, s, t) == [i \in 1..(Len(gs) - 1) |-> LET j == IF i < s THEN i ELSE i + 1 IN IF j = t THEN [gs[t] EXCEPT !.entries = gs[t].entries \o gs[s].entries] ELSE gs[j]]

\* The number of entries of all the groups of gs.
RECURSIVE TotalEntries(_)
TotalEntries(gs) == IF gs = <<>> THEN 0 ELSE Len(Head(gs).entries) + TotalEntries(Tail(gs))

\* C11: when the group at position s is edited so that its key becomes the
\* key of a different group at position t and the merge is confirmed, the
\* target's entries are its former entries followed by the source's, the
\* source is gone, every other group is unchanged and in its order, the count
\* of groups dropped by one and the total number of entries is unchanged.
C11_MergeMovesSourceIntoTarget == [][MergeStep => (/\ coll'.groups = MergeExpected(coll.groups, cur + 1, TabFirst(coll.groups, last'.arg))
   /\ Len(coll'.groups) = Len(coll.groups) - 1
   /\ TotalEntries(coll'.groups) = TotalEntries(coll.groups))]_vars

\* C11, the case in the code: a merge was confirmed on the manifest's groups
\* and the group that was edited is still in the collection with its key.
C11_Witness == last.op = "edit_tab" /\ last.outcome = "accepted" /\ last.flag /\ coll.dirty /\ Len(coll.groups) = 2 /\ \E i \in 1..2 : coll.groups[i].entries = <<Resource(<<"2">>, None)>> /\ coll.groups[3 - i].entries = <<Resource(<<"3">>, None), Resource(<<"1">>, None)>>

---------------------------------------------------------------------------
(* SpecMove: the tabs of an editor moved left and right *)

\* The position Python's list indexing gives the index i: a negative one counts from the end.
PyPos(s, i) == IF i < 0 THEN i + Len(s) ELSE i

\* An update_ui that leaves Move Left enabled whenever there is a tab.
MoveLeftAlways(c, current) == current >= 0

\* update_ui: Move Left is enabled with several groups and a current tab that is not the first.
MoveLeftEnabled(c, current) == Len(c.groups) > 1 /\ current > 0

\* update_ui: Move Right is enabled with several groups and a current tab that is not the last.
MoveRightEnabled(c, current) == Len(c.groups) > 1 /\ current < Len(c.groups) - 1

\* The list after s[i], s[j] = s[j], s[i] as Python runs it: both values are
\* read, then s[i] and then s[j] are assigned.
PySwap(s, i, j) == LET x == At(s, PyPos(s, j))
                       y == At(s, PyPos(s, i)) IN ListSetItem(ListSetItem(s, PyPos(s, i), x), PyPos(s, j), y)

\* edit_move_left with the current index: the collection afterwards and the
\* current index, which setCurrentIndex changes only to a valid one.
EditMoveLeft(c, index) == LET c1 == SetDirty([c EXCEPT !.groups = PySwap(@, index - 1, index)], TRUE) IN [coll |-> c1, current |-> IF index - 1 \in Positions(c1.groups) THEN index - 1 ELSE UpdateWidget(c1, 0), outcome |-> ""]

\* edit_move_right with the current index; collection[index + 1] past the end raises IndexError.
EditMoveRight(c, index) == IF index + 1 >= Len(c.groups) THEN [coll |-> c, current |-> index, outcome |-> "raise"] ELSE LET c1 == SetDirty([c EXCEPT !.groups = PySwap(@, index + 1, index)], TRUE) IN [coll |-> c1, current |-> index + 1, outcome |-> ""]

\* The editor opened a manifest of any number of groups up to MaxTabFile.
InitMove == InitTab \/ InitTabFile

\* Edit > Move Left, when update_ui left it enabled.
TabMoveLeft == LET r == EditMoveLeft(coll, cur) IN
               /\ MoveLeftEnabled(coll, cur)
               /\ coll' = r.coll
               /\ cur' = r.current
               /\ last' = [op |-> "move_left", outcome |-> r.outcome, arg |-> Resources(None, None, <<>>), flag |-> FALSE, pos |-> cur]
               /\ UNCHANGED <<clipboard, instances, next_id, disk>>

\* Edit > Move Right, when update_ui left it enabled.
TabMoveRight == LET r == EditMoveRight(coll, cur) IN
                /\ MoveRightEnabled(coll, cur)
                /\ coll' = r.coll
                /\ cur' = r.current
                /\ last' = [op |-> "move_right", outcome |-> r.outcome, arg |-> Resources(None, None, <<>>), flag |-> FALSE, pos |-> cur]
                /\ UNCHANGED <<clipboard, instances, next_id, disk>>

NextMove == \/ TabSelect
            \/ TabMoveLeft
            \/ TabMoveRight

SpecMove == InitMove /\ [][NextMove]_vars

\* The groups of gs with those at the positions i and j (from 0) exchanged.
Exchanged(gs, i, j) == [k \in 1..Len(gs) |-> IF k = i + 1 THEN gs[j + 1] ELSE IF k = j + 1 THEN gs[i + 1] ELSE gs[k]]

\* C12: moving the group at index i left, for i > 0, exchanges exactly the
\* groups at i - 1 and i and leaves every other position unchanged; moving
\* right exchanges i and i + 1; a move of the first group left or of the last
\* group right does not happen: nothing wraps around or leaves the range.
C12_MovesExchangeNeighbours == [][((last'.op = "move_left") => (cur > 0 /\ cur < Len(coll.groups) /\ coll'.groups = Exchanged(coll.groups, cur - 1, cur) /\ cur' = cur - 1)) /\ ((last'.op = "move_right") => (cur >= 0 /\ cur < Len(coll.groups) - 1 /\ coll'.groups = Exchanged(coll.groups, cur, cur + 1) /\ cur' = cur + 1))]_vars

\* C12, the case: the third of three groups was moved left and is now the second.
C12_Witness == last.op = "move_left" /\ last.pos = 2 /\ cur = 1 /\ Len(coll.groups) = 3 /\ coll.groups[2].entries = <<Resource(<<"3">>, None)>> /\ coll.groups[3].entries = <<Resource(<<"2">>, None)>>

---------------------------------------------------------------------------
(* The editors (QrcEditor): construction and the file actions *)

\* An editor made without counting it: the class counter stays at n.
QrcEditorKeepsCounter(file_name, n, d) == [editor |-> [collection |-> IF file_name = None THEN SetDirty(SetFileName(ResourceCollection, Unnamed(n)), FALSE) ELSE Load(ResourceCollection, file_name, d).coll, current |-> -1], next_id |-> n]

\* QrcEditor(file_name) with the class counter at n and the file system d:
\* the editor made (its collection and its tab widget's current index) and the
\* counter afterwards.  Without a file name the collection is named Unnamed-n
\* and is clean; with one it is whatever load leaves, also when load fails.
QrcEditor(file_name, n, d) == IF file_name = None THEN [editor |-> [collection |-> SetDirty(SetFileName(ResourceCollection, Unnamed(n)), FALSE), current |-> -1], next_id |-> n + 1] ELSE LET r == Load(ResourceCollection, file_name, d) IN [editor |-> [collection |-> r.coll, current |-> UpdateWidget(r.coll, 0)], next_id |-> n]

\* QrcEditor.is_open(file_name): some editor's collection has that file name.
IsOpen(insts, file_name) == \E i \in 1..Len(insts) : insts[i].collection.file_name = file_name

\* The file name a file dialog's answer becomes: .qrc is appended unless the
\* name ends in it, in whatever case.
WithExtension(file_name) == IF file_name[Len(file_name)] \in {".qrc", ".QRC"} THEN file_name ELSE file_name \o <<".qrc">>

\* A test that takes every document for one never saved.
IsUnnamedAlways(c) == TRUE

\* The test of file_new, file_open and file_save for a document never saved.
IsUnnamed(c) == StartsWith(c.file_name, <<"Unnamed">>)

\* file_save_as with the dialog's answer chosen (<<>> when cancelled): the
\* editor and the file system afterwards and the value returned.
FileSaveAsOf(ed, chosen, d) == IF chosen = <<>> THEN [editor |-> ed, disk |-> d, result |-> "None"] ELSE LET r == Save(ed.collection, WithExtension(chosen), d) IN [editor |-> [collection |-> r.coll, current |-> UpdateWidget(r.coll, ed.current)], disk |-> r.disk, result |-> r.outcome]

\* file_save: an unnamed document goes through file_save_as, whose result is
\* dropped; a named one is saved to its file name.
FileSaveOf(ed, chosen, d) == IF IsUnnamed(ed.collection) THEN [FileSaveAsOf(ed, chosen, d) EXCEPT !.result = "None"] ELSE LET r == Save(ed.collection, <<>>, d) IN [editor |-> [ed EXCEPT !.collection = r.coll], disk |-> r.disk, result |-> r.outcome]

\* file_save_all from editor i on: every dirty collection is saved to its own file name.
RECURSIVE FileSaveAllOf(_, _, _)
FileSaveAllOf(insts, i, d) == IF i > Len(insts) THEN [instances |-> insts, disk |-> d] ELSE IF insts[i].collection.dirty THEN LET r == Save(insts[i].collection, <<>>, d) IN FileSaveAllOf([insts EXCEPT ![i].collection = r.coll], i + 1, r.disk) ELSE FileSaveAllOf(insts, i + 1, d)

---------------------------------------------------------------------------
(* Spec: the editors of one process *)

\* The largest number of editors open at once.
MaxEditors == 2

\* The largest number of tabs of an editor's collection.
MaxEdTabs == 1

\* What the user answers to a save dialog: nothing, a path, a path without extension.
SaveChoices == Paths \cup {<<>>, <<"/a">>}

\* The manifest found at /b.qrc when the program starts.
StartFile == Written(<<Resources(<<"e", "n">>, None, <<Resource(<<"f">>, None)>>)>>)

\* The collection and the tab dialog of the other specifications take no part.
EdFrame == coll = ResourceCollection /\ cur = -1 /\ clipboard = <<>>

\* main: one editor, QrcEditor(), for Unnamed-1.
Init == /\ EdFrame
        /\ disk = [p \in AllPaths |-> IF p = <<"/b", ".qrc">> THEN StartFile ELSE NoFile]
        /\ instances = <<QrcEditor(None, 1, disk).editor>>
        /\ next_id = QrcEditor(None, 1, disk).next_id
        /\ last = [op |-> "init", outcome |-> "", arg |-> <<>>, flag |-> FALSE, pos |-> 0]

\* file_new in editor e.
FileNew(e) == \E chosen \in SaveChoices : LET c == instances[e].collection
                                              file_name == WithExtension(chosen)
                                              reuse == ~c.dirty /\ IsUnnamed(c)
                                              made == QrcEditor(file_name, next_id, disk) IN
              /\ chosen # <<>> /\ ~reuse => Len(instances) < MaxEditors
              /\ instances' = IF chosen = <<>> THEN instances ELSE IF reuse THEN [instances EXCEPT ![e].collection = SetFileName(c, file_name)] ELSE Append(instances, made.editor)
              /\ next_id' = IF chosen = <<>> \/ reuse THEN next_id ELSE made.next_id
              /\ last' = [op |-> "file_new", outcome |-> IF chosen = <<>> THEN "cancelled" ELSE IF reuse THEN "reused" ELSE "window", arg |-> chosen, flag |-> FALSE, pos |-> e]
              /\ UNCHANGED <<clipboard, disk, coll, cur>>

\* file_open in editor e: the dialog offers the files that exist.
FileOpen(e) == \E chosen \in {p \in Paths : disk[p].kind # "missing"} \cup {<<>>} : LET c == instances[e].collection
                                                                                         file_name == WithExtension(chosen)
                                                                                         open == chosen # <<>> /\ ~IsOpen(instances, file_name)
                                                                                         reuse == ~c.dirty /\ IsUnnamed(c)
                                                                                         r == Load(c, file_name, disk)
                                                                                         made == QrcEditor(file_name, next_id, disk) IN
               /\ open /\ ~reuse => Len(instances) < MaxEditors
               /\ instances' = IF ~open THEN instances ELSE IF reuse THEN [instances EXCEPT ![e] = [collection |-> r.coll, current |-> UpdateWidget(r.coll, 0)]] ELSE Append([instances EXCEPT ![e].current = UpdateWidget(c, 0)], made.editor)
               /\ next_id' = IF ~open \/ reuse THEN next_id ELSE made.next_id
               /\ last' = [op |-> "file_open", outcome |-> IF chosen = <<>> THEN "cancelled" ELSE IF ~open THEN "raised" ELSE IF reuse THEN "reused" ELSE "window", arg |-> chosen, flag |-> FALSE, pos |-> e]
               /\ UNCHANGED <<clipboard, disk, coll, cur>>

\* file_save in editor e.
FileSave(e) == \E chosen \in SaveChoices : LET r == FileSaveOf(instances[e], chosen, disk) IN
               /\ IsUnnamed(instances[e].collection) \/ chosen = <<>>
               /\ instances' = [instances EXCEPT ![e] = r.editor]
               /\ disk' = r.disk
               /\ last' = [op |-> "file_save", outcome |-> r.result, arg |-> chosen, flag |-> FALSE, pos |-> e]
               /\ UNCHANGED <<clipboard, next_id, coll, cur>>

\* file_save_as in editor e.
FileSaveAs(e) == \E chosen \in SaveChoices : LET r == FileSaveAsOf(instances[e], chosen, disk) IN
                 /\ instances' = [instances EXCEPT ![e] = r.editor]
                 /\ disk' = r.disk
                 /\ last' = [op |-> "file_save_as", outcome |-> r.result, arg |-> chosen, flag |-> FALSE, pos |-> e]
                 /\ UNCHANGED <<clipboard, next_id, coll, cur>>

\* file_save_all, from any editor.
FileSaveAll == LET r == FileSaveAllOf(instances, 1, disk) IN
               /\ instances # <<>>
               /\ instances' = r.instances
               /\ disk' = r.disk
               /\ last' = [op |-> "file_save_all", outcome |-> "", arg |-> <<>>, flag |-> FALSE, pos |-> 0]
               /\ UNCHANGED <<clipboard, next_id, coll, cur>>

\* closeEvent of editor e: ok_to_continue asks about a dirty collection; on
\* Yes it goes on only if file_save returned a true value.
CloseEvent(e) == \E reply \in {"Yes", "No", "Cancel"}, chosen \in SaveChoices :
                 LET c == instances[e].collection
                     r == FileSaveOf(instances[e], chosen, disk)
                     saves == c.dirty /\ reply = "Yes"
                     ok == IF ~c.dirty THEN TRUE ELSE IF reply = "Cancel" THEN FALSE ELSE IF reply = "Yes" THEN r.result = "true" ELSE TRUE IN
                 /\ c.dirty \/ reply = "No"
                 /\ (saves /\ IsUnnamed(c)) \/ chosen = <<>>
                 /\ instances' = IF ok THEN ListDel(instances, e - 1) ELSE IF saves THEN [instances EXCEPT ![e] = r.editor] ELSE instances
                 /\ disk' = IF saves THEN r.disk ELSE disk
                 /\ last' = [op |-> "close", outcome |-> IF ok THEN "closed" ELSE "ignored", arg |-> chosen, flag |-> saves, pos |-> e]
                 /\ UNCHANGED <<clipboard, next_id, coll, cur>>

\* edit_add_tab in editor e, the dialog accepted or cancelled.
EditAddTab(e) == \E language \in TabLanguages, ok \in BOOLEAN :
                 LET ed == instances[e]
                     resources == Resources(language, None, <<>>)
                     r == TabDlgAccept(ed.collection, -1, TabDlgIndex(ed.collection, -1, ed.current), language, <<>>, FALSE) IN
                 /\ Len(ed.collection.groups) < MaxEdTabs \/ Contains(ed.collection, resources)
                 /\ instances' = IF ok THEN [instances EXCEPT ![e] = [collection |-> r.coll, current |-> UpdateWidget(r.coll, r.index)]] ELSE instances
                 /\ last' = [op |-> "edit_add_tab", outcome |-> IF ok THEN "accepted" ELSE "rejected", arg |-> <<>>, flag |-> FALSE, pos |-> e]
                 /\ UNCHANGED <<clipboard, next_id, disk, coll, cur>>

\* edit_remove_tab of the current tab of editor e, the question answered Yes or No.
EditRemoveTab(e) == \E yes \in BOOLEAN :
                    LET ed == instances[e]
                        c1 == SetDirty([ed.collection EXCEPT !.groups = ListDel(@, ed.current)], TRUE) IN
                    /\ ed.current >= 0
                    /\ instances' = IF yes THEN [instances EXCEPT ![e] = [collection |-> c1, current |-> UpdateWidget(c1, 0)]] ELSE instances
                    /\ last' = [op |-> "edit_remove_tab", outcome |-> IF yes THEN "accepted" ELSE "rejected", arg |-> <<>>, flag |-> FALSE, pos |-> e]
                    /\ UNCHANGED <<clipboard, next_id, disk, coll, cur>>

Next == \/ \E e \in 1..Len(instances) : FileNew(e)
        \/ \E e \in 1..Len(instances) : FileOpen(e)
        \/ \E e \in 1..Len(instances) : FileSave(e)
        \/ \E e \in 1..Len(instances) : FileSaveAs(e)
        \/ FileSaveAll
        \/ \E e \in 1..Len(instances) : CloseEvent(e)
        \/ \E e \in 1..Len(instances) : EditAddTab(e)
        \/ \E e \in 1..Len(instances) : EditRemoveTab(e)

Spec == Init /\ [][Next]_vars

\* C1: after any sequence of editor actions no two open editors of the
\* instance list hold collections bound to the same backing file path.
C1_OneEditorPerPath == \A i, j \in 1..Len(instances) : i # j => instances[i].collection.file_name # instances[j].collection.file_name

\* C1, the case in the code: file_new was answered with the path an open
\* editor is bound to and opened a second window on that path.
C1_Witness == last.op = "file_new" /\ last.outcome = "window" /\ Len(instances) = 2 /\ instances[1].collection.file_name = instances[2].collection.file_name

---------------------------------------------------------------------------
(* The clipboard: edit_copy, check_clipboard, check_file and edit_paste *)

\* The characters str.strip() removes at both ends.
White == {" ", "\t", "\n"}

\* s.lstrip()
RECURSIVE LStrip(_)
LStrip(s) == IF s # <<>> /\ Head(s) \in White THEN LStrip(Tail(s)) ELSE s

\* s.rstrip()
RECURSIVE RStrip(_)
RStrip(s) == IF s # <<>> /\ s[Len(s)] \in White THEN RStrip(SubSeq(s, 1, Len(s) - 1)) ELSE s

\* s.strip()
Strip(s) == RStrip(LStrip(s))

\* s.split(sep): the pieces between the separators, one piece for a string without any.
RECURSIVE Split(_, _)
Split(s, sep) == IF ~HasChar(s, sep) THEN <<s>> ELSE LET i == CHOOSE k \in 1..Len(s) : s[k] = sep /\ \A j \in 1..(k - 1) : s[j] # sep IN <<SubSeq(s, 1, i - 1)>> \o Split(SubSeq(s, i + 1, Len(s)), sep)

\* edit_copy, the line of one entry: alias, tab and file unless the alias is None.
CopyLine(resource) == IF resource.alias # None THEN Fmt(resource.alias) \o <<"\t">> \o Fmt(resource.file) ELSE Fmt(resource.file)

\* edit_copy: the text set for the selected rows, in the order of the selection.
RECURSIVE EditCopy(_, _)
EditCopy(entries, indexes) == IF indexes = <<>> THEN <<>> ELSE CopyLine(At(entries, Head(indexes))) \o <<"\n">> \o EditCopy(entries, Tail(indexes))

\* The directory of the collection's manifest, as path components.
ClipDir == <<"d">>

\* The files that exist, as resolved path components: two inside the manifest's directory, one beside it.
ClipFilesOnDisk == {<<"d", "f">>, <<"d", "g">>, <<"x">>}

\* The path the file system resolves: a .. component leaves the directory before it.
RECURSIVE Resolve(_, _)
Resolve(todo, done) == IF todo = <<>> THEN done ELSE IF Head(todo) = ".." THEN Resolve(Tail(todo), IF done = <<>> THEN done ELSE SubSeq(done, 1, Len(done) - 1)) ELSE Resolve(Tail(todo), Append(done, Head(todo)))

\* os.path.commonpath([a, b]): the longest common prefix of the components as they are written.
CommonPath(a, b) == LET n == CHOOSE k \in 0..Len(a) : k <= Len(b) /\ SubSeq(a, 1, k) = SubSeq(b, 1, k) /\ \A m \in (k + 1)..Len(a) : m > Len(b) \/ SubSeq(a, 1, m) # SubSeq(b, 1, m) IN SubSeq(a, 1, n)

\* check_file for a relative file name, the manifest's directory being pwd
\* and files the files that exist: the file exists and the common path of
\* the joined name and the directory is the directory.
CheckFileIn(pwd, files, file_name) == LET joined == pwd \o file_name IN file_name # <<>> /\ Resolve(joined, <<>>) \in files /\ CommonPath(joined, pwd) = pwd

\* check_clipboard: what the paste action's enabled flag is set to.
CheckClipboardIn(pwd, files, text) == text # <<>> /\ \A i \in 1..Len(Split(Strip(text), "\n")) : LET resource == Split(Split(Strip(text), "\n")[i], "\t") IN Len(resource) <= 2 /\ CheckFileIn(pwd, files, resource[Len(resource)])

\* check_file in the directory of SpecClip.
CheckFile(file_name) == CheckFileIn(ClipDir, ClipFilesOnDisk, file_name)

\* check_clipboard in the directory of SpecClip.
CheckClipboard(text) == CheckClipboardIn(ClipDir, ClipFilesOnDisk, text)

\* edit_paste, the entry made of one line: Resource(file) with its default
\* alias for a single field, Resource(second, first) otherwise.
PasteResource(line) == LET data == Split(line, "\t") IN IF Len(data) = 1 THEN Resource(data[1], <<>>) ELSE Resource(data[2], data[1])

\* edit_paste: the entries after every line's entry is inserted, from row on.
RECURSIVE PasteInsert(_, _, _)
PasteInsert(entries, lines, row) == IF lines = <<>> THEN entries ELSE PasteInsert(ListInsert(entries, row, PasteResource(Head(lines))), Tail(lines), row + 1)

\* edit_paste into the tab at table_index, the table's current row being row - 1.
EditPaste(c, table_index, text, row) == [c EXCEPT !.dirty = TRUE, !.groups[table_index + 1].entries = PasteInsert(@, Split(Strip(text), "\n"), row)]

---------------------------------------------------------------------------
(* SpecClip: rows of one tab copied and pasted *)

\* The largest number of entries of the group the editor of SpecClip opened.
MaxClipEntries == 2

\* The largest number of entries the group of SpecClip grows to.
MaxClipRows == 4

\* The entries of the group: an alias absent, empty and given.
ClipEntries == {Resource(<<"f">>, None), Resource(<<"f">>, <<>>), Resource(<<"g">>, <<"a">>)}

\* Texts another application puts on the clipboard: a line of three fields,
\* a file that does not exist, a file beside the manifest's directory, a
\* good line followed by a bad one.
ClipTexts == {<<"f", "\t", "g", "\t", "f">>, <<"n">>, <<"..", "x">>, <<"f", "\n", "n">>}

\* The selections of rows of a table of n rows, in the order the rows were selected.
Selections(n) == {sel \in UNION {[1..k -> 0..(n - 1)] : k \in 1..n} : \A i, j \in 1..Len(sel) : i # j => sel[i] # sel[j]}

InitClip == /\ instances = <<>>
            /\ next_id = 1
            /\ clipboard = <<>>
            /\ \E es \in UNION {[1..n -> ClipEntries] : n \in 1..MaxClipEntries} :
                 /\ coll = [groups |-> <<Resources(None, None, es)>>, file_name |-> <<"/a", ".qrc">>, dirty |-> FALSE]
                 /\ disk = [p \in AllPaths |-> IF p = <<"/a", ".qrc">> THEN Written(coll.groups) ELSE NoFile]
            /\ cur = 0
            /\ last = [op |-> "init", outcome |-> "", arg |-> <<>>, flag |-> FALSE, pos |-> 0]

\* edit_copy of a selection of rows of the current tab.
ClipCopy == \E sel \in Selections(Len(At(coll.groups, cur).entries)) :
            /\ clipboard' = EditCopy(At(coll.groups, cur).entries, sel)
            /\ last' = [op |-> "copy", outcome |-> "", arg |-> sel, flag |-> FALSE, pos |-> 0]
            /\ UNCHANGED <<instances, next_id, disk, coll, cur>>

\* Another application sets the clipboard's text.
ClipSet == \E text \in ClipTexts :
           /\ clipboard' = text
           /\ last' = [op |-> "set", outcome |-> "", arg |-> <<>>, flag |-> FALSE, pos |-> 0]
           /\ UNCHANGED <<instances, next_id, disk, coll, cur>>

\* edit_paste below a row of the current tab, when check_clipboard left Paste enabled.
ClipPaste == \E row \in 0..Len(At(coll.groups, cur).entries) :
             /\ CheckClipboard(clipboard)
             /\ Len(At(coll.groups, cur).entries) + Len(Split(Strip(clipboard), "\n")) <= MaxClipRows
             /\ coll' = EditPaste(coll, cur, clipboard, row)
             /\ last' = [op |-> "paste", outcome |-> "", arg |-> <<>>, flag |-> FALSE, pos |-> row]
             /\ UNCHANGED <<instances, next_id, disk, cur, clipboard>>

NextClip == \/ ClipCopy
            \/ ClipSet
            \/ ClipPaste

SpecClip == InitClip /\ [][NextClip]_vars

\* The entries of the only group of SpecClip.
ClipRows == coll.groups[1].entries

\* The line the clipboard format gives an entry: alias, tab and path for an
\* alias that is present, the path alone for one absent or empty.
FormatLine(resource) == IF Truthy(resource.alias) THEN resource.alias \o <<"\t">> \o resource.file ELSE resource.file

\* The text the clipboard format gives the rows sel of the entries: one newline-terminated line each.
RECURSIVE FormatText(_, _)
FormatText(entries, sel) == IF sel = <<>> THEN <<>> ELSE FormatLine(At(entries, Head(sel))) \o <<"\n">> \o FormatText(entries, Tail(sel))

\* C13: copy encodes the entries as one newline-terminated line each, alias
\* tab path when the alias is present and the path alone when it is absent or
\* empty; pasting that text reproduces entries with the same path and the
\* same alias, an absent alias staying absent, in the same order.
C13_CopyPasteRoundTrip == [][((last'.op = "copy") => (clipboard' = FormatText(ClipRows, last'.arg))) /\ ((last.op = "copy" /\ last'.op = "paste") => (\A k \in 1..Len(last.arg) : coll'.groups[1].entries[last'.pos + k] = At(ClipRows, last.arg[k])))]_vars

\* C13, the case in the code: rows were copied and pasted, and an entry
\* without alias came back with the empty string for alias.
C13_Witness == last.op = "paste" /\ clipboard = <<"f", "\n">> /\ \E i, j \in 1..Len(ClipRows) : ClipRows[i] = Resource(<<"f">>, None) /\ ClipRows[j] = Resource(<<"f">>, <<>>)

\* The file named relative to the manifest's directory exists and lies inside that directory.
InsideDir(file_name) == LET path == Resolve(ClipDir \o file_name, <<>>) IN path \in ClipFilesOnDisk /\ Len(path) > Len(ClipDir) /\ SubSeq(path, 1, Len(ClipDir)) = ClipDir

\* Every line of the text has at most two tab-separated fields, the last
\* naming an existing file inside the manifest's directory.
ValidText(text) == \A i \in 1..Len(Split(Strip(text), "\n")) : LET fields == Split(Split(Strip(text), "\n")[i], "\t") IN Len(fields) <= 2 /\ InsideDir(fields[Len(fields)])

\* C14: paste is available iff every line of the clipboard has at most two
\* tab-separated fields and its last field names an existing file inside the
\* collection's directory; a clipboard with a line that fails this never
\* causes an entry to be inserted.
C14_PasteOnlyOfValidText == [][((clipboard # <<>>) => (CheckClipboard(clipboard) <=> ValidText(clipboard))) /\ ((last'.op = "paste") => ValidText(clipboard))]_vars

\* C14, the case in the code: the text naming a file beside the manifest's
\* directory was pasted and its entry is in the group.
C14_Witness == last.op = "paste" /\ clipboard = <<"..", "x">> /\ \E i \in 1..Len(ClipRows) : ClipRows[i].file = <<"..", "x">>

---------------------------------------------------------------------------
(* SpecSort: edit_sort on the entries of one tab *)

\* The characters of the strings that are sorted, in code point order.
SortAlphabet == <<"a", "b", "f", "g">>

\* The position of a character in the code point order.
CharRank(ch) == CHOOSE i \in 1..Len(SortAlphabet) : SortAlphabet[i] = ch

\* s < t for two str values.
RECURSIVE StrLt(_, _)
StrLt(s, t) == IF t = <<>> THEN FALSE ELSE IF s = <<>> THEN TRUE ELSE IF Head(s) = Head(t) THEN StrLt(Tail(s), Tail(t)) ELSE CharRank(Head(s)) < CharRank(Head(t))

\* The key function edit_sort passes: [alias, file] for the dialog's first choice, [file, alias] for the other.
SortKey(resource, key_index) == IF key_index = 0 THEN <<resource.alias, resource.file>> ELSE <<resource.file, resource.alias>>

\* a < b for two lists: the first position where the items differ decides,
\* and None against a str there raises TypeError.
ListCmp(a, b) == IF a = b THEN "eq" ELSE LET i == CHOOSE k \in 1..Len(a) : a[k] # b[k] /\ \A j \in 1..(k - 1) : a[j] = b[j] IN IF a[i] = None \/ b[i] = None THEN "raise" ELSE IF StrLt(a[i], b[i]) THEN "lt" ELSE "gt"

\* Some comparison the sort has to make raises.
SortRaises(entries, key_index) == \E i, j \in 1..Len(entries) : ListCmp(SortKey(entries[i], key_index), SortKey(entries[j], key_index)) = "raise"

\* x goes before y in the order asked for.
Before(x, y, key_index, reverse) == ListCmp(SortKey(x, key_index), SortKey(y, key_index)) = (IF reverse THEN "gt" ELSE "lt")

\* One step of the stable sort: x is put behind every entry it does not go before.
RECURSIVE SortInsert(_, _, _, _)
SortInsert(sorted, x, key_index, reverse) == IF sorted = <<>> THEN <<x>> ELSE IF Before(x, sorted[Len(sorted)], key_index, reverse) THEN Append(SortInsert(SubSeq(sorted, 1, Len(sorted) - 1), x, key_index, reverse), sorted[Len(sorted)]) ELSE Append(sorted, x)

\* list.sort(key, reverse) when no comparison raises.
RECURSIVE ListSort(_, _, _)
ListSort(entries, key_index, reverse) == IF entries = <<>> THEN <<>> ELSE SortInsert(ListSort(SubSeq(entries, 1, Len(entries) - 1), key_index, reverse), entries[Len(entries)], key_index, reverse)

\* The orders of the entries a sort that raised can leave behind.
Rearranged(entries) == {[i \in 1..Len(entries) |-> entries[p[i]]] : p \in {q \in [1..Len(entries) -> 1..Len(entries)] : \A i, j \in 1..Len(entries) : i # j => q[i] # q[j]}}

\* The largest number of entries of the group that is sorted.
MaxSortEntries == 3

\* The entries of the group: files with and without alias.
SortEntries == {Resource(f, a) : f \in {<<"f">>, <<"g">>}, a \in {None, <<"a">>, <<"b">>}}

InitSort == /\ instances = <<>>
            /\ next_id = 1
            /\ clipboard = <<>>
            /\ disk = [p \in AllPaths |-> NoFile]
            /\ \E es \in UNION {[1..n -> SortEntries] : n \in 1..MaxSortEntries} :
                 coll = [groups |-> <<Resources(None, None, es)>>, file_name |-> <<"/a", ".qrc">>, dirty |-> FALSE]
            /\ cur = 0
            /\ last = [op |-> "init", outcome |-> "", arg |-> 0, flag |-> FALSE, pos |-> 0]

\* edit_sort with the dialog accepted: the key chosen in the combo box and the Reverse order box.
EditSort == \E key_index \in {0, 1}, reverse \in BOOLEAN :
            LET entries == At(coll.groups, cur).entries IN
            IF SortRaises(entries, key_index)
            THEN /\ \E es \in Rearranged(entries) : coll' = [coll EXCEPT !.groups[cur + 1].entries = es]
                 /\ last' = [op |-> "sort", outcome |-> "raise", arg |-> key_index, flag |-> reverse, pos |-> 0]
                 /\ UNCHANGED <<instances, next_id, disk, cur, clipboard>>
            ELSE /\ coll' = [coll EXCEPT !.dirty = TRUE, !.groups[cur + 1].entries = ListSort(entries, key_index, reverse)]
                 /\ last' = [op |-> "sort", outcome |-> "done", arg |-> key_index, flag |-> reverse, pos |-> 0]
                 /\ UNCHANGED <<instances, next_id, disk, cur, clipboard>>

\* edit_sort with the dialog rejected.
EditSortCancel == /\ last' = [op |-> "sort", outcome |-> "cancelled", arg |-> 0, flag |-> FALSE, pos |-> 0]
                  /\ UNCHANGED <<instances, next_id, disk, coll, cur, clipboard>>

NextSort == \/ EditSort
            \/ EditSortCancel

SpecSort == InitSort /\ [][NextSort]_vars

\* The composite key with an absent alias or path taken as the empty string.
LowKey(resource, key_index) == LET k == SortKey(resource, key_index) IN [i \in 1..2 |-> IF k[i] = None THEN <<>> ELSE k[i]]

\* x is strictly before y by the composite key with absent as lowest.
LowBefore(x, y, key_index, reverse) == LET a == LowKey(x, key_index) b == LowKey(y, key_index) lt(u, v) == IF u[1] = v[1] THEN StrLt(u[2], v[2]) ELSE StrLt(u[1], v[1]) IN IF reverse THEN lt(b, a) ELSE lt(a, b)

\* after is a permutation of before in the order asked for, entries of equal key in their former order.
SortedStable(before, after, key_index, reverse) == /\ after \in Rearranged(before)
                                                   /\ \A i, j \in 1..Len(after) : i < j => ~LowBefore(after[j], after[i], key_index, reverse)
                                                   /\ \A x \in SortEntries : LET same(y) == LowKey(y, key_index) = LowKey(x, key_index) IN SelectSeq(after, same) = SelectSeq(before, same)

\* C15: sorting a group by (alias, path) or (path, alias), ascending or
\* descending, completes for every group, also one mixing absent and string
\* aliases, and leaves a permutation of the entries ordered by the key with an
\* absent alias lowest, entries of equal key keeping their relative order.
C15_SortCompletesOrdered == [][(last'.op = "sort" /\ last'.outcome # "cancelled") => (last'.outcome = "done" /\ SortedStable(coll.groups[1].entries, coll'.groups[1].entries, last'.arg, last'.flag))]_vars

\* C15, the case in the code: a group mixing an entry without alias and one
\* with a string alias was sorted by alias and the sort raised.
C15_Witness == last.op = "sort" /\ last.outcome = "raise" /\ last.arg = 0 /\ ~coll.dirty /\ \E i, j \in 1..Len(coll.groups[1].entries) : coll.groups[1].entries[i].alias = None /\ coll.groups[1].entries[j].alias = <<"a">>

---------------------------------------------------------------------------
(* SpecFile: the editors under New, Open and Add Tab *)

NextFile == \/ \E e \in 1..Len(instances) : FileNew(e)
            \/ \E e \in 1..Len(instances) : FileOpen(e)
            \/ \E e \in 1..Len(instances) : EditAddTab(e)

SpecFile == Init /\ [][NextFile]_vars

\* The step is file_new or file_open of editor last'.pos answered with a path no editor is bound to.
OpensFreshPath == last'.op \in {"file_new", "file_open"} /\ last'.arg # <<>> /\ ~IsOpen(instances, WithExtension(last'.arg))

\* The collections of the editors open before the step are the same after it.
EditorsKeepCollections == \A i \in 1..Len(instances) : instances'[i].collection = instances[i].collection

\* C16: new or open from an editor with a chosen path that is not open: if
\* the editor's collection is clean and its path starts with Unnamed, the
\* number of editors is unchanged and the collection becomes bound to the
\* chosen path; otherwise exactly one editor bound to the chosen path is added
\* and the invoking editor's groups, path and dirty flag are unchanged.
C16_NewOpenRepointOrWindow == [][OpensFreshPath => LET c == instances[last'.pos].collection n == Len(instances) IN IF ~c.dirty /\ StartsWith(c.file_name, <<"Unnamed">>) THEN (Len(instances') = n /\ instances'[last'.pos].collection.file_name = WithExtension(last'.arg)) ELSE (Len(instances') = n + 1 /\ instances'[n + 1].collection.file_name = WithExtension(last'.arg) /\ EditorsKeepCollections)]_vars

\* C16: Open was answered from a dirty unnamed editor and a second editor, bound to the chosen path, was added.
C16_Witness == last.op = "file_open" /\ last.outcome = "window" /\ Len(instances) = 2 /\ instances[1].collection.dirty /\ StartsWith(instances[1].collection.file_name, <<"Unnamed">>) /\ instances[2].collection.file_name = <<"/b", ".qrc">> /\ instances[2].collection.groups # <<>>


---------------------------------------------------------------------------
(* SpecUnnamed: editors for unsaved documents constructed and closed *)

\* The largest value of the counter at which an editor is still constructed.
MaxUnnamed == 3

\* QrcEditor(): an editor constructed without a file name while the application runs.
Construct == LET made == QrcEditor(None, next_id, disk) IN
             /\ instances # <<>>
             /\ Len(instances) < MaxEditors
             /\ next_id <= MaxUnnamed
             /\ instances' = Append(instances, made.editor)
             /\ next_id' = made.next_id
             /\ last' = [op |-> "construct", outcome |-> "", arg |-> <<>>, flag |-> FALSE, pos |-> Len(instances) + 1]
             /\ UNCHANGED <<clipboard, disk, coll, cur>>

NextUnnamed == \/ Construct
               \/ \E e \in 1..Len(instances) : CloseEvent(e)
               \/ \E e \in 1..Len(instances) : FileNew(e)

SpecUnnamed == Init /\ [][NextUnnamed]_vars

\* The numbers of the unsaved documents that are open.
OpenNumbers(insts) == {n \in 1..(MaxUnnamed + 1) : \E i \in 1..Len(insts) : insts[i].collection.file_name = Unnamed(n)}

\* C17: the counter that names unsaved documents only increases: a newly
\* constructed unnamed document gets the counter's value, which is greater
\* than every number handed out before, so no number is used again, also
\* after the document that had it is closed.
C17_CounterOnlyIncreases == [][next_id' >= next_id /\ (\A n \in OpenNumbers(instances) : n < next_id) /\ ((last'.op = "construct") => (instances'[Len(instances')].collection.file_name = Unnamed(next_id) /\ next_id' = next_id + 1 /\ next_id \notin OpenNumbers(instances)))]_vars

\* C17: Unnamed-1 was closed and the editor constructed afterwards is Unnamed-3, beside Unnamed-2.
C17_Witness == last.op = "construct" /\ next_id = 4 /\ Len(instances) = 2 /\ instances[1].collection.file_name = Unnamed(2) /\ instances[2].collection.file_name = Unnamed(3)

---------------------------------------------------------------------------
(* SpecIdem: a manifest loaded and saved back at once *)

\* The largest number of <qresource> elements of the manifest loaded.
MaxIdemGroups == 1

\* The largest number of <file> elements of a <qresource> element of the manifest loaded.
MaxIdemFiles == 2

\* The <file> elements of the manifests: the alias attribute absent, empty or given, the text empty or given.
IdemFileLines == [alias : {None, <<>>, <<"a">>}, text : {<<>>, <<"f">>}]

\* The <qresource> elements of the manifests.
IdemQresources == [lang : {None, <<>>, <<"e", "n">>}, prefix : {None, <<"x">>}, files : UNION {[1..n -> IdemFileLines] : n \in 0..MaxIdemFiles}]

\* The files found at the path: manifests, a file that is no XML, no file.
IdemFiles == {[kind |-> "rcc", lines |-> ls] : ls \in UNION {[1..n -> IdemQresources] : n \in 0..MaxIdemGroups}} \cup {Garbage, NoFile}

InitIdem == /\ instances = <<>>
            /\ next_id = 1
            /\ clipboard = <<>>
            /\ cur = -1
            /\ coll = ResourceCollection
            /\ \E f \in IdemFiles : disk = [p \in AllPaths |-> IF p = RtPath THEN f ELSE NoFile]
            /\ last = [op |-> "init", outcome |-> "", arg |-> NoFile, flag |-> FALSE]

\* collection.load(path); the file that was read is kept in last.arg.
IdemLoad == LET r == Load(coll, RtPath, disk) IN
            /\ last.op = "init"
            /\ coll' = r.coll
            /\ last' = [op |-> "load", outcome |-> r.outcome, arg |-> disk[RtPath], flag |-> FALSE]
            /\ UNCHANGED <<clipboard, instances, next_id, disk, cur>>

\* collection.save(path) right after a load that returned True.
IdemSave == LET r == Save(coll, RtPath, disk) IN
            /\ last.op = "load" /\ last.outcome = "true"
            /\ coll' = r.coll
            /\ disk' = r.disk
            /\ last' = [op |-> "save", outcome |-> r.outcome, arg |-> last.arg, flag |-> FALSE]
            /\ UNCHANGED <<clipboard, instances, next_id, cur>>

NextIdem == \/ IdemLoad
            \/ IdemSave

SpecIdem == InitIdem /\ [][NextIdem]_vars

\* C18: for every manifest load accepts, load(path) followed at once by save
\* to the same path writes a file identical to the one loaded: the same
\* groups, the same attributes present or absent with the same values, the
\* same entries and text.
C18_LoadSaveReproducesFile == (last.op = "save") => (last.outcome = "true" /\ disk[RtPath] = last.arg)

\* C18, the case in the code: a manifest with an empty alias attribute was
\* loaded and saved, and the file written has no alias attribute there.
C18_Witness == last.op = "save" /\ last.outcome = "true" /\ Len(last.arg.lines) = 1 /\ Len(last.arg.lines[1].files) = 1 /\ last.arg.lines[1].files[1] = [alias |-> <<>>, text |-> <<"f">>] /\ disk[RtPath].lines[1].files[1] = [alias |-> None, text |-> <<"f">>]

---------------------------------------------------------------------------
(* The dirty flag of the editors' collections against the files *)

\* The collection is bound to a path a user chose, not to an Unnamed name.
Named(c) == ~StartsWith(c.file_name, <<"Unnamed">>)

\* The manifest at the collection's path holds the groups and entries of the collection.
ManifestMatches(c, d) == d[c.file_name].kind = "rcc" /\ WellFormed(d[c.file_name]) /\ ParseGroups(d[c.file_name]) = c.groups

\* C19: for a named document, whenever dirty() is false the manifest at the
\* backing path has the same groups and entries as the collection in memory,
\* in every state the editors' actions reach, several editors being open.
C19_CleanMatchesManifest == \A i \in 1..Len(instances) : (Named(instances[i].collection) /\ ~instances[i].collection.dirty) => ManifestMatches(instances[i].collection, disk)

\* C19, the case in the code: Save As in one editor wrote its collection over
\* the manifest a second editor had loaded, whose collection stays clean.
C19_Witness == last.op = "file_save_as" /\ last.outcome = "true" /\ last.pos = 1 /\ Len(instances) = 2 /\ instances[1].collection.file_name = instances[2].collection.file_name /\ Named(instances[2].collection) /\ ~instances[2].collection.dirty /\ instances[2].collection.groups = ParseGroups(StartFile) /\ disk[instances[2].collection.file_name] = Written(<<>>)

---------------------------------------------------------------------------
(* ResourceCollection.remove *)

\* C20: remove(g) takes the group out of the collection: when a group with
\* g's language and prefix is present, the group count drops by one, dirty()
\* is true and True is returned; when none is present, False is returned and
\* the collection and its dirty flag are unchanged.
C20_RemoveTakesGroupOut == [][(last'.op = "remove") => (IF last'.outcome = "true" THEN (Len(coll'.groups) = Len(coll.groups) - 1 /\ coll'.dirty) ELSE coll' = coll)]_vars

\* C20, the case in the code: remove returned True for the key of the only
\* group of a collection, and the collection still holds its group.
C20_Witness == last.op = "remove" /\ last.outcome = "true" /\ coll.dirty /\ Len(coll.groups) = 1 /\ coll.groups[1].language = <<"e", "n">>

---------------------------------------------------------------------------
(* The rows of a tab: edit_move_up, edit_move_down, edit_remove_resource, edit_cut *)

\* The rows of a selection as a set.
RowSet(sel) == {sel[k] : k \in 1..Len(sel)}

\* sorted(rows) and sorted(rows, reverse=True) for the distinct rows of a selection.
RECURSIVE SortedRows(_, _)
SortedRows(rows, reverse) == IF rows = {} THEN <<>> ELSE LET x == CHOOSE r \in rows : \A q \in rows : IF reverse THEN q <= r ELSE r <= q IN <<x>> \o SortedRows(rows \ {x}, reverse)

\* A test that lets Move Up run whenever a row is selected.
MoveUpAlways(entries, sel) == sel # <<>>

\* update_ui: Move Up is enabled when the table has several rows, some are selected and the smallest is not the first.
MoveUpEnabled(entries, sel) == Len(entries) > 1 /\ sel # <<>> /\ \A r \in RowSet(sel) : r > 0

\* update_ui: Move Down is enabled when the table has several rows, some are selected and the largest is not the last.
MoveDownEnabled(entries, sel) == Len(entries) > 1 /\ sel # <<>> /\ \A r \in RowSet(sel) : r < Len(entries) - 1

\* The loop of edit_move_up (delta -1) and edit_move_down (delta 1): each index in turn is exchanged with its neighbour.
RECURSIVE MoveRows(_, _, _)
MoveRows(entries, indexes, delta) == IF indexes = <<>> THEN entries ELSE MoveRows(PySwap(entries, Head(indexes) + delta, Head(indexes)), Tail(indexes), delta)

\* edit_move_up: the entries afterwards and the indexes handed to update_table.
EditMoveUp(entries, sel) == LET indexes == SortedRows(RowSet(sel), FALSE) IN [entries |-> MoveRows(entries, indexes, -1), indexes |-> [k \in 1..Len(indexes) |-> indexes[k] - 1]]

\* edit_move_down: the entries afterwards and the indexes handed to update_table.
EditMoveDown(entries, sel) == LET indexes == SortedRows(RowSet(sel), TRUE) IN [entries |-> MoveRows(entries, indexes, 1), indexes |-> [k \in 1..Len(indexes) |-> indexes[k] + 1]]

\* A removal that pops the rows in the order they were selected.
RemoveInSelectionOrder(sel) == sel

\* edit_remove_resource: the order in which the selected rows are popped.
RemoveOrder(sel) == SortedRows(RowSet(sel), TRUE)

\* The loop of edit_remove_resource: resources.pop(index) for each index in turn.
RECURSIVE PopRows(_, _)
PopRows(entries, indexes) == IF indexes = <<>> THEN entries ELSE PopRows(ListDel(entries, Head(indexes)), Tail(indexes))

\* edit_remove_resource for the selected rows.
EditRemoveResource(entries, sel) == PopRows(entries, RemoveOrder(sel))

---------------------------------------------------------------------------
(* SpecRows: the rows of one tab moved, removed and cut *)

\* The largest number of entries of the group the editor of SpecRows opened.
MaxRowEntries == 4

\* The entries of the group; a group may hold equal entries.
RowEntries == {Resource(f, None) : f \in {<<"f">>, <<"g">>}}

InitRows == /\ instances = <<>>
            /\ next_id = 1
            /\ clipboard = <<>>
            /\ disk = [p \in AllPaths |-> NoFile]
            /\ \E es \in UNION {[1..n -> RowEntries] : n \in 1..MaxRowEntries} :
                 coll = [groups |-> <<Resources(None, None, es), Resources(<<"e", "n">>, None, <<Resource(<<"f">>, None)>>)>>, file_name |-> <<"/a", ".qrc">>, dirty |-> FALSE]
            /\ cur = 0
            /\ last = [op |-> "init", outcome |-> "", arg |-> <<>>, flag |-> FALSE, pos |-> 0, rows |-> <<>>]

\* edit_move_up for a selection of rows of the current tab.
RowsMoveUp == \E sel \in Selections(Len(At(coll.groups, cur).entries)) :
              LET r == EditMoveUp(At(coll.groups, cur).entries, sel) IN
              /\ MoveUpEnabled(At(coll.groups, cur).entries, sel)
              /\ coll' = SetDirty([coll EXCEPT !.groups[cur + 1].entries = r.entries], TRUE)
              /\ last' = [op |-> "move_up", outcome |-> "", arg |-> sel, flag |-> FALSE, pos |-> 0, rows |-> r.indexes]
              /\ UNCHANGED <<instances, next_id, disk, cur, clipboard>>

\* edit_move_down for a selection of rows of the current tab.
RowsMoveDown == \E sel \in Selections(Len(At(coll.groups, cur).entries)) :
                LET r == EditMoveDown(At(coll.groups, cur).entries, sel) IN
                /\ MoveDownEnabled(At(coll.groups, cur).entries, sel)
                /\ coll' = SetDirty([coll EXCEPT !.groups[cur + 1].entries = r.entries], TRUE)
                /\ last' = [op |-> "move_down", outcome |-> "", arg |-> sel, flag |-> FALSE, pos |-> 0, rows |-> r.indexes]
                /\ UNCHANGED <<instances, next_id, disk, cur, clipboard>>

\* edit_remove_resource for a selection of rows of the current tab.
RowsRemove == \E sel \in Selections(Len(At(coll.groups, cur).entries)) :
              /\ coll' = SetDirty([coll EXCEPT !.groups[cur + 1].entries = EditRemoveResource(@, sel)], TRUE)
              /\ last' = [op |-> "remove", outcome |-> "", arg |-> sel, flag |-> FALSE, pos |-> 0, rows |-> <<>>]
              /\ UNCHANGED <<instances, next_id, disk, cur, clipboard>>

\* edit_cut: edit_copy, then edit_remove_resource.
RowsCut == \E sel \in Selections(Len(At(coll.groups, cur).entries)) :
           /\ clipboard' = EditCopy(At(coll.groups, cur).entries, sel)
           /\ coll' = SetDirty([coll EXCEPT !.groups[cur + 1].entries = EditRemoveResource(@, sel)], TRUE)
           /\ last' = [op |-> "cut", outcome |-> "", arg |-> sel, flag |-> FALSE, pos |-> 0, rows |-> <<>>]
           /\ UNCHANGED <<instances, next_id, disk, cur>>

NextRows == \/ RowsMoveUp
            \/ RowsMoveDown
            \/ RowsRemove
            \/ RowsCut

SpecRows == InitRows /\ [][NextRows]_vars

\* The entries of s at the rows outside the set rows, in their order.
RECURSIVE Unselected(_, _, _)
Unselected(s, rows, i) == IF i >= Len(s) THEN <<>> ELSE (IF i \in rows THEN <<>> ELSE <<At(s, i)>>) \o Unselected(s, rows, i + 1)

\* The entries with every row of the set rows moved by delta, the others filling the remaining rows in their order.
Shifted(s, rows, delta) == LET taken == {r + delta : r \in rows}
                               rest == Unselected(s, rows, 0)
                           IN [k \in 1..Len(s) |-> IF (k - 1) \in taken THEN At(s, k - 1 - delta) ELSE rest[Cardinality({t \in 0..(k - 1) : t \notin taken})]]

\* C23: Move Up, enabled only when the smallest selected row is above 0,
\* moves every selected entry up by one, and Move Down, enabled only when the
\* largest selected row is not the last, moves every selected entry down by
\* one; the group keeps its entries, the selected and the unselected entries
\* keep their relative orders, and the indexes reported are the positions of
\* the moved entries.
C23_MovesShiftSelectedRows == [][((last'.op = "move_up") => ((\A r \in RowSet(last'.arg) : r > 0) /\ coll'.groups[1].entries = Shifted(coll.groups[1].entries, RowSet(last'.arg), -1) /\ RowSet(last'.rows) = {r - 1 : r \in RowSet(last'.arg)} /\ Len(last'.rows) = Len(last'.arg))) /\ ((last'.op = "move_down") => ((\A r \in RowSet(last'.arg) : r < Len(coll.groups[1].entries) - 1) /\ coll'.groups[1].entries = Shifted(coll.groups[1].entries, RowSet(last'.arg), 1) /\ RowSet(last'.rows) = {r + 1 : r \in RowSet(last'.arg)} /\ Len(last'.rows) = Len(last'.arg)))]_vars

\* C23: rows 1 and 3 of four, selected in that order reversed, were moved up.
C23_Witness == last.op = "move_up" /\ last.arg = <<3, 1>> /\ last.rows = <<0, 2>> /\ coll.dirty /\ [k \in 1..4 |-> coll.groups[1].entries[k].file] = <<<<"g">>, <<"f">>, <<"g">>, <<"f">>>>

\* C24: removing or cutting the selected rows removes the entries that were
\* at the selected indexes, in whatever order the rows were selected, leaves
\* the other entries of the group in their order and the other groups unchanged.
C24_RemoveTakesSelectedRows == [][(last'.op \in {"remove", "cut"}) => (coll'.groups[1].entries = Unselected(coll.groups[1].entries, RowSet(last'.arg), 0) /\ coll'.groups[2] = coll.groups[2] /\ Len(coll'.groups) = Len(coll.groups))]_vars

\* C24: rows 0 and 2 of three, selected in that order, were cut; the middle entry is left.
C24_Witness == last.op = "cut" /\ last.arg = <<0, 2>> /\ Len(coll.groups[1].entries) = 1 /\ coll.groups[1].entries[1].file = <<"g">> /\ clipboard = <<"f", "\n", "f", "\n">>

---------------------------------------------------------------------------
(* SpecSortSel: edit_sort with rows selected *)

\* resources.index(resource): the first position whose entry equals resource by Resource.__eq__, alias and file.
ListIndex(s, resource) == CHOOSE i \in Positions(s) : At(s, i) = resource /\ \A j \in 0..(i - 1) : At(s, j) # resource

\* The indexes edit_sort hands to update_table: resources.index of each entry that was selected, looked up after the sort.
SortIndexes(before, after, sel) == [k \in 1..Len(sel) |-> ListIndex(after, At(before, sel[k]))]

InitSortSel == /\ instances = <<>>
               /\ next_id = 1
               /\ clipboard = <<>>
               /\ disk = [p \in AllPaths |-> NoFile]
               /\ \E es \in UNION {[1..n -> SortEntries] : n \in 1..MaxSortEntries} :
                    coll = [groups |-> <<Resources(None, None, es)>>, file_name |-> <<"/a", ".qrc">>, dirty |-> FALSE]
               /\ cur = 0
               /\ last = [op |-> "init", outcome |-> "", arg |-> 0, flag |-> FALSE, pos |-> 0, sel |-> <<>>, rows |-> <<>>]

\* edit_sort with the dialog accepted and the rows sel selected.
EditSortSelected == \E key_index \in {0, 1}, reverse \in BOOLEAN, sel \in Selections(Len(At(coll.groups, cur).entries)) :
                    LET entries == At(coll.groups, cur).entries
                        sorted == ListSort(entries, key_index, reverse) IN
                    IF SortRaises(entries, key_index)
                    THEN /\ \E es \in Rearranged(entries) : coll' = [coll EXCEPT !.groups[cur + 1].entries = es]
                         /\ last' = [op |-> "sort", outcome |-> "raise", arg |-> key_index, flag |-> reverse, pos |-> 0, sel |-> sel, rows |-> <<>>]
                         /\ UNCHANGED <<instances, next_id, disk, cur, clipboard>>
                    ELSE /\ coll' = [coll EXCEPT !.dirty = TRUE, !.groups[cur + 1].entries = sorted]
                         /\ last' = [op |-> "sort", outcome |-> "done", arg |-> key_index, flag |-> reverse, pos |-> 0, sel |-> sel, rows |-> SortIndexes(entries, sorted, sel)]
                         /\ UNCHANGED <<instances, next_id, disk, cur, clipboard>>

NextSortSel == EditSortSelected

SpecSortSel == InitSortSel /\ [][NextSortSel]_vars

\* The position after the sort of the entry that was at row before it: the
\* entries are sorted with their former rows attached.
NewRow(entries, key_index, reverse, row) == LET tagged == [i \in 1..Len(entries) |-> [file |-> entries[i].file, alias |-> entries[i].alias, row |-> i - 1]]
                                                sorted == ListSort(tagged, key_index, reverse)
                                            IN CHOOSE p \in Positions(sorted) : At(sorted, p).row = row

\* C22: after a sort the recomputed selection designates the entries that
\* were selected before it: as many distinct rows as entries were selected,
\* each the new position of that very entry, also when the group holds
\* several entries with equal alias and path.
C22_SortKeepsSelection == [][(last'.op = "sort" /\ last'.outcome = "done") => (Cardinality({last'.rows[k] : k \in 1..Len(last'.rows)}) = Len(last'.sel) /\ \A k \in 1..Len(last'.sel) : last'.rows[k] = NewRow(coll.groups[1].entries, last'.arg, last'.flag, last'.sel[k]))]_vars

\* C22, the case in the code: of two equal entries the second was selected,
\* and the index recomputed after the sort is the row of the first.
C22_Witness == last.op = "sort" /\ last.outcome = "done" /\ last.sel = <<1>> /\ last.rows = <<0>> /\ Len(coll.groups[1].entries) = 2 /\ coll.groups[1].entries[1] = coll.groups[1].entries[2]

---------------------------------------------------------------------------
(* The index the tab dialog reports *)

\* The step is a tab dialog accepted with a key that a group of the collection had.
AcceptedPresentKey == last'.op \in {"add_tab", "edit_tab"} /\ last'.outcome = "accepted" /\ Contains(coll, last'.arg)

\* C25: whenever the tab dialog is accepted with a key already present in
\* the collection, in add mode and in edit mode, the merge confirmed or
\* declined, the index it reports is a valid position of the collection and
\* the group there has the entered key.
C25_ReportedIndexHasKey == [][AcceptedPresentKey => (last'.pos \in Positions(coll'.groups) /\ SameKey(At(coll'.groups, last'.pos), last'.arg))]_vars

\* C25, the case in the code: with the first of two tabs in front, Add Tab
\* was accepted with the key of the second, and the index reported is that of the first.
C25_Witness == last.op = "add_tab" /\ last.outcome = "accepted" /\ last.pos = 0 /\ Len(coll.groups) = 2 /\ SameKey(coll.groups[2], last.arg) /\ ~SameKey(coll.groups[1], last.arg)

\* C26: accepting the edit-tab dialog with the language and the prefix left
\* equal to the edited group's leaves the collection unchanged: the same
\* groups in the same order with the same entries, whatever is answered to a
\* merge prompt.
C26_EditWithSameKeyKeepsGroups == [][(last'.op = "edit_tab" /\ last'.outcome = "accepted" /\ cur >= 0 /\ SameKey(At(coll.groups, cur), last'.arg)) => coll'.groups = coll.groups]_vars

\* C26, the case in the code: the only tab was edited with its key left as it
\* was, the merge prompt was answered Yes, and the collection has no group left.
C26_Witness == last.op = "edit_tab" /\ last.outcome = "accepted" /\ last.flag /\ coll.groups = <<>> /\ coll.dirty /\ cur = -1

---------------------------------------------------------------------------
(* Closing a dirty document *)

\* The step is a closeEvent in which Save unsaved changes? was answered Yes.
CloseSaves == last'.op = "close" /\ last'.flag

\* The save made by the step left the collection of the editor written and clean.
CloseSaved == LET r == FileSaveOf(instances[last'.pos], last'.arg, disk) IN ~r.editor.collection.dirty /\ r.disk[r.editor.collection.file_name] = Written(r.editor.collection.groups)

\* C27: when a dirty document is closed and the question is answered Yes,
\* ok_to_continue is true exactly when the save succeeded, for named and for
\* Unnamed documents alike, so that a document that was saved goes on to close
\* and leaves the list of editors; and an editor leaves the list only if its
\* collection was not dirty, the answer was No, or the save succeeded.
C27_CloseAfterSave == [][(CloseSaves => ((last'.outcome = "closed") <=> CloseSaved)) /\ ((Len(instances') < Len(instances)) => (last'.op = "close" /\ (last'.flag => CloseSaved)))]_vars

\* C27, the case in the code: an Unnamed document with changes was closed,
\* Yes was answered and the document was saved under the chosen path, and the
\* editor is still open.
C27_Witness == last.op = "close" /\ last.outcome = "ignored" /\ last.flag /\ last.arg = <<"/a", ".qrc">> /\ Len(instances) = 1 /\ instances[1].collection.file_name = <<"/a", ".qrc">> /\ ~instances[1].collection.dirty /\ instances[1].collection.groups # <<>> /\ disk[<<"/a", ".qrc">>] = Written(instances[1].collection.groups)

---------------------------------------------------------------------------
(* The files written under an Unnamed name *)

\* C28: no action writes a collection to a path that is an Unnamed-N name:
\* an unnamed document is saved through save-as under a path the user chose,
\* also when the save comes from Save All over every open editor.
C28_NothingWrittenToUnnamed == \A p \in AllPaths : StartsWith(p, <<"Unnamed">>) => disk[p].kind = "missing"

\* C28, the case in the code: Save All wrote the collection of the unnamed
\* editor to the file Unnamed-1, and the editor is clean and still unnamed.
C28_Witness == last.op = "file_save_all" /\ Len(instances) = 1 /\ instances[1].collection.file_name = Unnamed(1) /\ ~instances[1].collection.dirty /\ instances[1].collection.groups # <<>> /\ disk[Unnamed(1)] = Written(instances[1].collection.groups)

---------------------------------------------------------------------------
(* SpecPaste: the enabled flag of Paste while the manifest's path changes *)

\* os.path.realpath(os.path.dirname(file_name)) for the paths of SpecPaste, as path components.
DirName(file_name) == IF Head(file_name) = "/e/a" THEN <<"e">> ELSE <<>>

\* The files that exist beside the manifests: /e/f.
PasteFilesOnDisk == {<<"e", "f">>}

\* The paths the manifest of SpecPaste is opened from and saved to.
PastePaths == {<<"/a", ".qrc">>, <<"/e/a", ".qrc">>}

\* The texts the clipboard is set to: a file name, a name of no file, a line of three fields.
PasteTexts == {<<"f">>, <<"n">>, <<"a", "\t", "f", "\t", "f">>}

\* The manifest found at both paths: one group without entries.
PasteFile == Written(<<Resources(None, None, <<>>)>>)

\* One editor, constructed on a manifest; check_clipboard ran in __init__
\* with no text on the clipboard.  The editor's record carries the enabled
\* flag of its paste action.
InitPaste == /\ EdFrame
             /\ next_id = 1
             /\ disk = [p \in AllPaths |-> IF p \in PastePaths THEN PasteFile ELSE NoFile]
             /\ \E p \in PastePaths : instances = <<[collection |-> QrcEditor(p, 1, disk).editor.collection, current |-> 0, paste |-> CheckClipboardIn(DirName(p), PasteFilesOnDisk, <<>>)]>>
             /\ last = [op |-> "init", outcome |-> "", arg |-> <<>>, flag |-> FALSE, pos |-> 0]

\* The clipboard's dataChanged signal: check_clipboard sets the flag for the text and the directory of the moment.
PasteDataChanged == \E text \in PasteTexts :
                    /\ clipboard' = text
                    /\ instances' = [instances EXCEPT ![1].paste = CheckClipboardIn(DirName(instances[1].collection.file_name), PasteFilesOnDisk, text)]
                    /\ last' = [op |-> "set", outcome |-> "", arg |-> <<>>, flag |-> FALSE, pos |-> 0]
                    /\ UNCHANGED <<next_id, disk, coll, cur>>

\* file_save_as: the collection is saved under the chosen path; the paste action is not looked at.
PasteSaveAs == \E chosen \in PastePaths \cup {<<>>} :
               LET r == FileSaveAsOf([collection |-> instances[1].collection, current |-> instances[1].current], chosen, disk) IN
               /\ instances' = [instances EXCEPT ![1].collection = r.editor.collection, ![1].current = r.editor.current]
               /\ disk' = r.disk
               /\ last' = [op |-> "file_save_as", outcome |-> r.result, arg |-> chosen, flag |-> FALSE, pos |-> 1]
               /\ UNCHANGED <<clipboard, next_id, coll, cur>>

\* edit_paste, run when the paste action is enabled.
PasteRows == \E row \in 0..Len(At(instances[1].collection.groups, 0).entries) :
             /\ instances[1].paste
             /\ Len(At(instances[1].collection.groups, 0).entries) + Len(Split(Strip(clipboard), "\n")) <= MaxClipEntries
             /\ instances' = [instances EXCEPT ![1].collection = EditPaste(@, 0, clipboard, row)]
             /\ last' = [op |-> "paste", outcome |-> "", arg |-> <<>>, flag |-> FALSE, pos |-> row]
             /\ UNCHANGED <<clipboard, next_id, disk, coll, cur>>

NextPaste == \/ PasteDataChanged
             \/ PasteSaveAs
             \/ PasteRows

SpecPaste == InitPaste /\ [][NextPaste]_vars

\* Every line of the text has at most two fields, the last naming a file that exists inside the directory pwd.
ValidIn(pwd, text) == text # <<>> /\ \A i \in 1..Len(Split(Strip(text), "\n")) : LET fields == Split(Split(Strip(text), "\n")[i], "\t") path == Resolve(pwd \o fields[Len(fields)], <<>>) IN Len(fields) <= 2 /\ path \in PasteFilesOnDisk /\ SubSeq(path, 1, Len(pwd)) = pwd

\* C29: in every reachable state of an editor its paste action is enabled
\* only if the clipboard's text is valid against the directory of the
\* editor's collection, also after the collection's path changed (save-as,
\* open, new) while the clipboard stayed as it was.
C29_PasteEnabledOnlyIfValid == instances[1].paste => ValidIn(DirName(instances[1].collection.file_name), clipboard)

\* C29, the case in the code: with f on the clipboard the manifest was saved
\* from /e to /, where no f exists, and Paste, still enabled, inserted the entry.
C29_Witness == last.op = "paste" /\ instances[1].paste /\ clipboard = <<"f">> /\ instances[1].collection.file_name = <<"/a", ".qrc">> /\ At(instances[1].collection.groups, 0).entries = <<Resource(<<"f">>, <<>>)>>

---------------------------------------------------------------------------
(* SpecSettings: the settings dialog on the editor's options *)

\* The values of the sliders the model moves them to.
CompressLevels == {1, 5}
ThresholdLevels == {70, 30}

\* The options a settings file leaves the editor with when it starts.
StartOptions == [program : {"pyside6-rcc.exe", "rcc"}, no_compress : BOOLEAN, compress : BOOLEAN, compress_level : CompressLevels, threshold : BOOLEAN, threshold_level : {70}]

\* ResourceSettingsDlg.__init__: the widgets set from the options.
SettingsWidgets(options) == [program |-> options.program, no_compress |-> options.no_compress, compress |-> options.compress, compress_level |-> options.compress_level, compress_enabled |-> options.compress, threshold |-> options.threshold, threshold_level |-> options.threshold_level, threshold_enabled |-> options.threshold]

\* What reset assigns to the options.
ResetOptions == [program |-> "pyside2-rcc.exe", no_compress |-> FALSE, compress |-> FALSE, compress_level |-> 1, threshold |-> FALSE, threshold_level |-> 70]

\* ResourceSettingsDlg.reset: the options of the editor are assigned, then the widgets are set from them.
SettingsReset(ed) == [ed EXCEPT !.options = ResetOptions, !.widgets = SettingsWidgets(ResetOptions)]

\* ResourceSettingsDlg.accept: the options take the widgets' values.
SettingsAccept(ed) == [ed EXCEPT !.open = FALSE, !.options = [program |-> ed.widgets.program, no_compress |-> ed.widgets.no_compress, compress |-> ed.widgets.compress, compress_level |-> ed.widgets.compress_level, threshold |-> ed.widgets.threshold, threshold_level |-> ed.widgets.threshold_level]]

\* One editor with its options; no dialog is open.
InitSettings == /\ EdFrame
                /\ next_id = 1
                /\ disk = [p \in AllPaths |-> NoFile]
                /\ \E o \in StartOptions : instances = <<[options |-> o, widgets |-> SettingsWidgets(o), open |-> FALSE]>>
                /\ last = [op |-> "init", outcome |-> "", arg |-> instances[1].options, flag |-> FALSE, pos |-> 0]

\* A step of the settings dialog: the editor afterwards; last.arg keeps the options the dialog was opened with.
SettingsStep(op, ed) == /\ instances' = <<ed>>
                        /\ last' = [op |-> op, outcome |-> "", arg |-> IF op = "open" THEN instances[1].options ELSE last.arg, flag |-> FALSE, pos |-> 0]
                        /\ UNCHANGED <<clipboard, next_id, disk, coll, cur>>

\* edit_settings: the dialog is made from the options and shown.
SettingsOpen == ~instances[1].open /\ SettingsStep("open", [instances[1] EXCEPT !.open = TRUE, !.widgets = SettingsWidgets(instances[1].options)])

\* The No compression box is clicked: no_compress_slot.
ClickNoCompress == LET w == instances[1].widgets IN instances[1].open /\ SettingsStep("click", [instances[1] EXCEPT !.widgets = IF ~w.no_compress THEN [w EXCEPT !.no_compress = TRUE, !.compress = FALSE, !.compress_enabled = FALSE, !.threshold = FALSE, !.threshold_enabled = FALSE] ELSE [w EXCEPT !.no_compress = FALSE]])

\* The Compress box is clicked: compress_slot.
ClickCompress == LET w == instances[1].widgets IN instances[1].open /\ SettingsStep("click", [instances[1] EXCEPT !.widgets = IF ~w.compress THEN [w EXCEPT !.compress = TRUE, !.no_compress = FALSE, !.compress_enabled = TRUE] ELSE [w EXCEPT !.compress = FALSE, !.compress_enabled = FALSE]])

\* The Threshold box is clicked: threshold_slot.
ClickThreshold == LET w == instances[1].widgets IN instances[1].open /\ SettingsStep("click", [instances[1] EXCEPT !.widgets = IF ~w.threshold THEN [w EXCEPT !.threshold = TRUE, !.no_compress = FALSE, !.threshold_enabled = TRUE] ELSE [w EXCEPT !.threshold = FALSE, !.threshold_enabled = FALSE]])

\* A slider that is enabled is moved.
MoveSlider == \E c \in CompressLevels, t \in ThresholdLevels : LET w == instances[1].widgets IN
              /\ instances[1].open
              /\ (c # w.compress_level /\ w.compress_enabled /\ t = w.threshold_level) \/ (t # w.threshold_level /\ w.threshold_enabled /\ c = w.compress_level)
              /\ SettingsStep("slide", [instances[1] EXCEPT !.widgets.compress_level = c, !.widgets.threshold_level = t])

\* update_program: a compiler that check_program accepts is chosen.
UpdateProgram == instances[1].open /\ instances[1].widgets.program # "rcc" /\ SettingsStep("program", [instances[1] EXCEPT !.widgets.program = "rcc"])

\* The Reset button.
ClickReset == instances[1].open /\ SettingsStep("reset", SettingsReset(instances[1]))

\* The OK button.
ClickOk == instances[1].open /\ SettingsStep("accept", SettingsAccept(instances[1]))

\* The Cancel button: QDialog.reject.
ClickCancel == instances[1].open /\ SettingsStep("cancel", [instances[1] EXCEPT !.open = FALSE])

NextSettings == \/ SettingsOpen
                \/ ClickNoCompress
                \/ ClickCompress
                \/ ClickThreshold
                \/ MoveSlider
                \/ UpdateProgram
                \/ ClickReset
                \/ ClickOk
                \/ ClickCancel

SpecSettings == InitSettings /\ [][NextSettings]_vars

\* C30: closing the settings dialog with Cancel leaves the editor's options
\* as they were when the dialog was opened, whatever was clicked before,
\* Reset included; the options change only when the dialog is accepted.
C30_CancelKeepsOptions == [][((last'.op = "cancel") => (instances'[1].options = last.arg)) /\ ((instances'[1].options # instances[1].options) => (last'.op = "accept"))]_vars

\* C30, the case in the code: the dialog was opened on options naming the
\* compiler rcc with compression on, Reset was clicked and then Cancel, and
\* the options are the reset values.
C30_Witness == last.op = "cancel" /\ ~instances[1].open /\ last.arg.program = "rcc" /\ last.arg.compress /\ instances[1].options = ResetOptions

---------------------------------------------------------------------------
(* SpecDirty: the editing actions of one editor and the dirty flag; edit_cut is edit_remove_resource after a copy *)

\* edit_remove_tab of the current tab: the question answered Yes or No.
DirtyRemoveTab == \E yes \in BOOLEAN :
                  /\ cur \in Positions(coll.groups)
                  /\ coll' = IF yes THEN SetDirty([coll EXCEPT !.groups = SubSeq(@, 1, cur) \o SubSeq(@, cur + 2, Len(@))], TRUE) ELSE coll
                  /\ cur' = IF yes THEN UpdateWidget(coll', cur) ELSE cur
                  /\ last' = [op |-> "remove_tab", outcome |-> IF yes THEN "accepted" ELSE "declined", arg |-> 0, flag |-> yes, pos |-> cur]
                  /\ UNCHANGED <<clipboard, instances, next_id, disk>>

\* The entries of the saved document: two files, one of them also under an alias.
DirtyEntries == {Resource(<<"f">>, None), Resource(<<"g">>, None), Resource(<<"g">>, <<"b">>)}

\* A document that was saved: one group of entries, not dirty.
InitDirty == /\ instances = <<>>
             /\ next_id = 1
             /\ clipboard = <<>>
             /\ \E es \in UNION {[1..n -> DirtyEntries] : n \in 1..MaxSortEntries} :
                  /\ coll = [groups |-> <<Resources(None, None, es)>>, file_name |-> <<"/a", ".qrc">>, dirty |-> FALSE]
                  /\ disk = [p \in AllPaths |-> IF p = <<"/a", ".qrc">> THEN Written(coll.groups) ELSE NoFile]
             /\ cur = 0
             /\ last = [op |-> "init", outcome |-> "", arg |-> 0, flag |-> FALSE, pos |-> 0]

\* The actions on the rows of the current tab are enabled only with a tab.
NextDirty == \/ (cur \in Positions(coll.groups) /\ EditSort)
             \/ EditSortCancel
             \/ (cur \in Positions(coll.groups) /\ RowsMoveUp)
             \/ (cur \in Positions(coll.groups) /\ RowsMoveDown)
             \/ (cur \in Positions(coll.groups) /\ RowsRemove)
             \/ TabAdd
             \/ TabEdit
             \/ TabSelect
             \/ TabMoveLeft
             \/ TabMoveRight
             \/ DirtyRemoveTab

SpecDirty == InitDirty /\ [][NextDirty]_vars

\* The step was cancelled in its dialog or declined at its question.
Declined == last'.outcome \in {"cancelled", "rejected", "declined"}

\* C21: every editing action that was accepted and changed the groups or
\* their entries leaves the collection reporting dirty; an action that was
\* cancelled or declined leaves the collection, its flag included, as it was.
C21_ChangesSetDirty == [][((coll'.groups # coll.groups) => coll'.dirty) /\ (Declined => (coll' = coll))]_vars

\* C21, the case in the code: a saved document whose group holds the entries
\* (g, alias b), (f), (g) was sorted by file, ascending; the sort raised on
\* the aliases of the two entries for g after it had put f first, and the
\* document is still reported clean.
C21_Witness == last.op = "sort" /\ last.outcome = "raise" /\ last.arg = 1 /\ ~last.flag /\ ~coll.dirty /\ coll.groups[1].entries = <<Resource(<<"f">>, None), Resource(<<"g">>, <<"b">>), Resource(<<"g">>, None)>>

====
